---- MODULE Spec2Model ----
(***************************************************************************)
(* A model of the DICOM -> volume -> chunked marching cubes pipeline of    *)
(* the React application: the marching-cubes web worker                    *)
(* (workers/marchingCubes.worker.ts), the mesh generator panel that drives *)
(* it (components/MeshGeneratorPanel.tsx), the volume builder (handleSeries*)
(* of the parse button) and the series assembler (lib/dicom/parseDicom.ts).*)
(*                                                                         *)
(* Numbers are integers.  An optional value (number | undefined | null) is *)
(* a sequence of length at most one: <<>> is "absent", <<v>> is "v".       *)
(***************************************************************************)
EXTENDS Integers, Sequences, FiniteSets, TLC

VARIABLES
  \* ---- application state (state/AppState.tsx) and the parse button
  volumeData,       \* AppState.volumeData: <<>> or <<VolumeData record>>
  generatedMesh,    \* AppState.generatedMesh: <<>> or <<mesh>>
  parsedSeries,     \* AppState.parsedSeries: <<>> or <<series>>
  parsePending,     \* handleSeries suspended at `await build8BitStack`: <<>> or <<series>>
  loads,            \* number of series loads started (bounded by MaxLoads)
  \* ---- MeshGeneratorPanel component state
  mounted,          \* the panel is mounted (the sidebar is shown)
  isoValue,         \* useState isoValue: <<>> (null) or <<number>>
  loading,          \* useState loading
  progress,         \* useState progress: <<>> (null) or <<fraction>>
  error,            \* useState error: <<>> or <<error kind>>
  \* ---- the worker
  inbox,            \* GenerateMessages posted to the worker, not yet handled
  wpc,              \* "idle" | "running" | "publishing" | "terminated"
  req,              \* the GenerateMessage being handled
  chunkIdx,         \* position of the chunk loop (lines 490-496)
  processedChunks,  \* let processedChunks
  chunkResults,     \* const chunkResults: ChunkResult[]
  outbox,           \* worker -> panel messages in flight (FIFO)
  \* ---- history of the current extraction request
  posted,           \* every message the worker posted for the request, in order
  events,           \* posts, deliveries and the worker's teardown, in order
  requests,         \* number of requests issued (bounded by MaxRequests)
  \* ---- the series assembler (parseDicomFiles)
  files,            \* the input: the files' data sets, in the order given
  slices,           \* const slices: the slices pushed so far
  series,           \* <<>> while the call runs, then <<result>>
  \* ---- volume metadata, slice and annotations (state/AppState.tsx)
  volume,           \* AppState.volume: VolumeMeta, every field <<>> or <<value>>
  sliceIndex,       \* AppState.sliceIndex
  annotations,      \* AppState.annotations, in order
  selectedAnnotationId,  \* <<>> or <<id>>
  tool,             \* "select" | "marker" | "arrow" | "label"
  \* ---- the viewers and the import panel
  arrowDraftStart,  \* SliceViewer: <<>> (null) or <<start point>>
  arrowFromMarkerId,\* SliceViewer: <<>> or <<id of the marker the draft starts at>>
  importError,      \* ImportSRPanel error: <<>> or <<message>>
  \* ---- a coordinate conversion (lib/dicom/geometry)
  geo,              \* the points of one conversion
  \* ---- the end of the worker's handler, on a mesh with coordinates
  surface           \* <<>> or the arrays and the bounding box of a mesh

appVars    == <<volumeData, generatedMesh, parsedSeries, parsePending, loads>>
panelVars  == <<mounted, isoValue, loading, progress, error>>
workerVars == <<inbox, wpc, req, chunkIdx, processedChunks, chunkResults, outbox>>
histVars   == <<posted, events, requests>>
seriesVars == <<files, slices, series>>
metaVars   == <<volume, sliceIndex>>
markVars   == <<annotations, selectedAnnotationId, tool, arrowDraftStart,
                arrowFromMarkerId, importError, geo, surface>>
annotVars  == <<metaVars, markVars>>
vars == <<volumeData, generatedMesh, parsedSeries, parsePending, loads,
          mounted, isoValue, loading, progress, error,
          inbox, wpc, req, chunkIdx, processedChunks, chunkResults, outbox,
          posted, events, requests, files, slices, series,
          volume, sliceIndex, annotations, selectedAnnotationId, tool,
          arrowDraftStart, arrowFromMarkerId, importError, geo, surface>>

----------------------------------------------------------------------------
(* Bounds of the model *)

\* triangles the cells of one chunk emit, at most
MaxTris == 2
\* extraction requests in one behaviour, at most
MaxRequests == 2
\* series loads in one behaviour, at most
MaxLoads == 1
\* files given to the series assembler, at most
MaxFiles == 3

(* Program constants *)
CHUNK_SIZE == 64
CHUNK_OVERLAP == 2
\* 4_000_000 in the source.  The number of triangles a cell emits comes from
\* the triangle table of an external package, so the model leaves it open and
\* scales the budget down to what MaxTris triangles can exceed.
MAX_CHUNK_VERTEX_COUNT == 4

----------------------------------------------------------------------------
(* Small helpers *)

None == <<>>
Some(v) == <<v>>
IsSome(o) == o # <<>>
Get(o) == o[1]

\* throw new Error(message), as the outcome of the call that throws
ParseError(message) == [ok |-> FALSE, error |-> message]

Max2(a, b) == IF a >= b THEN a ELSE b
Min2(a, b) == IF a <= b THEN a ELSE b

SeqRange(s) == {s[i] : i \in 1..Len(s)}
SetMin(S) == CHOOSE x \in S : \A y \in S : x <= y
SetMax(S) == CHOOSE x \in S : \A y \in S : x >= y

\* Math.ceil(a / b) for a >= 0, b > 0
CeilDiv(a, b) == (a + b - 1) \div b

(* An iso-value is a JavaScript number: NaN (or an infinity), or a finite   *)
(* rational n/d with d > 0.  Voxel values and the recorded range are        *)
(* integers, so every comparison is made by cross-multiplication.          *)
Rat(n, d) ==
  IF n % d = 0 THEN [finite |-> TRUE, n |-> n \div d, d |-> 1]
  ELSE [finite |-> TRUE, n |-> n, d |-> d]
Fin(v) == Rat(v, 1)
NaN == [finite |-> FALSE, n |-> 0, d |-> 1]
\* v < q, v > q, v <= q for an integer v and a finite rational q
IntLt(v, q) == v * q.d < q.n
IntGt(v, q) == v * q.d > q.n
IntLe(v, q) == v * q.d <= q.n

----------------------------------------------------------------------------
(* The worker: workers/marchingCubes.worker.ts                              *)

Width(m) == m.dims[1]
Height(m) == m.dims[2]
Depth(m) == m.dims[3]

\* lines 248-260: the range the iso-value is checked against
\* (voxelMin/voxelMax of the message; observed only when one is missing)
rangeOf(m) ==
  IF IsSome(m.voxelMin) /\ IsSome(m.voxelMax)
  THEN <<Get(m.voxelMin), Get(m.voxelMax)>>
  ELSE LET samples == Get(m.voxels) IN
       IF Len(samples) = 0 THEN <<0, 0>>
       ELSE <<SetMin(SeqRange(samples)), SetMax(SeqRange(samples))>>

\* lines 262-267
isoOutsideRange(m) ==
  LET rangeMin == rangeOf(m)[1]
      rangeMax == rangeOf(m)[2]
  IN  /\ rangeMin <= rangeMax
      /\ (IntGt(rangeMin, m.isoValue) \/ IntLt(rangeMax, m.isoValue))

\* the early returns with the iso-value examined before the dimensions
precheckIsoFirst(m) ==
  IF ~m.isoValue.finite THEN "nonfinite"
  ELSE IF ~IsSome(m.voxels) \/ Width(m) < 2 \/ Height(m) < 2 \/ Depth(m) < 2
    THEN "dimensions"
  ELSE IF isoOutsideRange(m) THEN "range"
  ELSE "ok"

\* lines 237-272: the early returns of self.onmessage; "ok" when none is taken
precheck(m) ==
  IF ~IsSome(m.voxels) \/ Width(m) < 2 \/ Height(m) < 2 \/ Depth(m) < 2
    THEN "dimensions"
  ELSE IF ~m.isoValue.finite THEN "nonfinite"
  ELSE IF isoOutsideRange(m) THEN "range"
  ELSE "ok"

\* lines 295-297
stepX == Max2(1, CHUNK_SIZE - CHUNK_OVERLAP)
\* lines 298-300: Math.max(1, Math.ceil((n - 1) / step))
axisSteps(n) == Max2(1, CeilDiv(n - 1, stepX))
\* line 301
totalChunks(m) ==
  Max2(1, axisSteps(Width(m)) * axisSteps(Height(m)) * axisSteps(Depth(m)))

\* the values a loop `for (x = 0; x < n - 1; x += step)` visits (lines 490-492)
loopStarts(n) == {x \in 0..(n - 2) : x % stepX = 0}
loopCount(n) == Cardinality(loopStarts(n))
\* the chunk loop, z outermost and x innermost: its i-th iteration (i from 0)
chunkCount(m) == loopCount(Width(m)) * loopCount(Height(m)) * loopCount(Depth(m))
chunkAt(m, i) ==
  LET nx == loopCount(Width(m))
      ny == loopCount(Height(m))
  IN  <<(i % nx) * stepX, ((i \div nx) % ny) * stepX, (i \div (nx * ny)) * stepX>>

\* lines 217-231, compared with the iso-value as line 381 does: value < isoValue.
\* A read past the end of the array is undefined, and undefined < iso is false.
sampleBelow(m, x, y, z) ==
  IF x < 0 \/ x >= Width(m) \/ y < 0 \/ y >= Height(m) \/ z < 0 \/ z >= Depth(m)
  THEN IntLt(0, m.isoValue)
  ELSE LET idx == z * Width(m) * Height(m) + y * Width(m) + x IN
       /\ idx + 1 <= Len(Get(m.voxels))
       /\ IntLt(Get(m.voxels)[idx + 1], m.isoValue)

\* lines 11-20
cornerOffsets ==
  << <<0, 0, 0>>, <<1, 0, 0>>, <<1, 0, 1>>, <<0, 0, 1>>,
     <<0, 1, 0>>, <<1, 1, 0>>, <<1, 1, 1>>, <<0, 1, 1>> >>

\* lines 372-389: the cell's cube index is neither 0 nor 255, the two entries
\* of the classical edge table that are 0 (`edges === 0` skips the cell)
cellCrossed(m, x, y, z) ==
  LET below == {i \in 1..8 : sampleBelow(m, x + cornerOffsets[i][1],
                                            y + cornerOffsets[i][2],
                                            z + cornerOffsets[i][3])}
  IN  below # {} /\ below # 1..8

\* a chunk that ends where the next one starts
chunkEndAtNextStart(n, start) == Min2(n, start + stepX)
\* lines 315-317
chunkEnd(n, start) == Min2(n, start + CHUNK_SIZE)
\* line 318
chunkTooSmall(m, c) ==
  \/ chunkEnd(Width(m), c[1]) - c[1] < 2
  \/ chunkEnd(Height(m), c[2]) - c[2] < 2
  \/ chunkEnd(Depth(m), c[3]) - c[3] < 2
\* lines 369-371: the cells of the chunk starting at c
chunkCells(m, c) ==
  (c[1]..(chunkEnd(Width(m), c[1]) - 2)) \X
  (c[2]..(chunkEnd(Height(m), c[2]) - 2)) \X
  (c[3]..(chunkEnd(Depth(m), c[3]) - 2))
chunkCrossed(m, c) ==
  \E cell \in chunkCells(m, c) : cellCrossed(m, cell[1], cell[2], cell[3])

(* A surface point a cell interpolates on one of its edges: <<key, w>>.     *)
(* key stands for the quantized grid coordinate of line 337; two points    *)
(* with the same key have patient-space positions within the 1e-4          *)
(* tolerance of lines 341-345 iff their w agree.                            *)
Keys == 1..6
Point(key, w) == <<key, w>>
\* the triangles a crossed cell may emit (triTable and VertexInterp3 are the
\* external package's): fresh corners, fresh corners again, and a triangle
\* whose second corner collides with the key of its first
Triangles ==
  { <<Point(1, 0), Point(2, 0), Point(3, 0)>>,
    <<Point(4, 0), Point(5, 0), Point(6, 0)>>,
    <<Point(1, 0), Point(1, 1), Point(2, 0)>> }
TriStreams == UNION {[1..n -> Triangles] : n \in 0..MaxTris}

\* lines 324-327: the arrays of a chunk before its first cell
emptyChunk ==
  [positions |-> <<>>, indices |-> <<>>, vertexMap |-> [k \in Keys |-> None]]

\* getVertexIndex without the budget check of lines 350-353
getVertexIndexUnbounded(c, p) ==
  LET existing == c.vertexMap[p[1]] IN
  IF IsSome(existing) /\ c.positions[Get(existing) + 1] = p
  THEN [chunk |-> c, index |-> Get(existing), thrown |-> FALSE]
  ELSE [chunk |-> [c EXCEPT !.positions = Append(@, p),
                            !.vertexMap[p[1]] = Some(Len(c.positions))],
        index |-> Len(c.positions), thrown |-> FALSE]

\* lines 329-367 (the bounding box is left out)
getVertexIndex(c, p) ==
  LET existing == c.vertexMap[p[1]] IN
  IF IsSome(existing) /\ c.positions[Get(existing) + 1] = p
  THEN [chunk |-> c, index |-> Get(existing), thrown |-> FALSE]
  ELSE LET index == Len(c.positions) IN
       IF index >= MAX_CHUNK_VERTEX_COUNT
       THEN [chunk |-> c, index |-> index, thrown |-> TRUE]
       ELSE [chunk |-> [c EXCEPT !.positions = Append(@, p),
                                 !.vertexMap[p[1]] = Some(index)],
             index |-> index, thrown |-> FALSE]

\* lines 447-461: the three corners in order, then indices.push(i0, i1, i2)
emitTriangle(c, t) ==
  LET r0 == getVertexIndex(c, t[1]) IN
  IF r0.thrown THEN [chunk |-> c, thrown |-> TRUE] ELSE
  LET r1 == getVertexIndex(r0.chunk, t[2]) IN
  IF r1.thrown THEN [chunk |-> c, thrown |-> TRUE] ELSE
  LET r2 == getVertexIndex(r1.chunk, t[3]) IN
  IF r2.thrown THEN [chunk |-> c, thrown |-> TRUE] ELSE
  [chunk |-> [r2.chunk EXCEPT !.indices = @ \o <<r0.index, r1.index, r2.index>>],
   thrown |-> FALSE]

\* lines 369-465: the cell loop of a chunk whose cells emit `stream`
RECURSIVE runCellsFrom(_, _, _)
runCellsFrom(c, stream, i) ==
  IF i > Len(stream) THEN [chunk |-> c, thrown |-> FALSE]
  ELSE LET r == emitTriangle(c, stream[i]) IN
       IF r.thrown THEN r ELSE runCellsFrom(r.chunk, stream, i + 1)
runCells(stream) == runCellsFrom(emptyChunk, stream, 1)

\* lines 386-416: what the cells of the chunk at c can emit; nothing when no
\* cell is crossed, and whatever the triangle table lists otherwise
cellStreams(m, c) ==
  IF chunkCrossed(m, c) THEN TriStreams ELSE {<<>>}

\* a chunk's output recorded whether or not it holds a vertex
pushChunkAlways(results, c) ==
  Append(results, [positions |-> c.positions, indices |-> c.indices])

\* lines 478-482
chunkResult(c) == [positions |-> c.positions, indices |-> c.indices]
\* lines 467-483: chunkResults.push, only for a chunk that holds a vertex
pushChunk(results, c) ==
  IF Len(c.positions) > 0 THEN Append(results, chunkResult(c)) ELSE results

\* lines 516-530: chunk outputs concatenated, indices rebased by vertexBase
RECURSIVE concatFrom(_, _, _, _)
concatFrom(results, i, acc, vertexBase) ==
  IF i > Len(results) THEN acc
  ELSE LET chunk == results[i] IN
       concatFrom(results, i + 1,
         [positions |-> acc.positions \o chunk.positions,
          indices |-> acc.indices \o
                      [j \in 1..Len(chunk.indices) |-> chunk.indices[j] + vertexBase]],
         vertexBase + Len(chunk.positions))
\* the concatenation with the running vertex offset started at one
concatChunksFromOne(results) ==
  concatFrom(results, 1, [positions |-> <<>>, indices |-> <<>>], 1)
concatChunks(results) ==
  concatFrom(results, 1, [positions |-> <<>>, indices |-> <<>>], 0)

(* Messages of the worker (WorkerResponse, lines 38-66) *)
ErrorMessage(kind) == [type |-> "error", error |-> kind]
EmptyMessage == [type |-> "empty"]
\* the share of chunks still to do, in place of the share done
ProgressRemaining(k, n) ==
  [type |-> "progress", num |-> Max2(0, n - k), den |-> n]
\* Math.min(1, k / n) as the fraction num/den
ProgressMessage(k, n) ==
  IF k >= n THEN [type |-> "progress", num |-> 1, den |-> 1]
  ELSE [type |-> "progress", num |-> k, den |-> n]
SuccessMessage(mesh) ==
  [type |-> "mesh", positions |-> mesh.positions, indices |-> mesh.indices]

\* postMessageSafe / self.postMessage
Post(msg) ==
  /\ outbox' = Append(outbox, msg)
  /\ posted' = Append(posted, msg)
  /\ events' = Append(events, [kind |-> "post", type |-> msg.type])

NoRequest ==
  [voxels |-> None, dims |-> <<0, 0, 0>>, isoValue |-> Fin(0),
   voxelMin |-> None, voxelMax |-> None]

\* lines 233-311: the handler starts on a message; the early returns
WorkerReceive ==
  /\ wpc = "idle"
  /\ inbox # <<>>
  /\ LET m == Head(inbox) IN
     /\ inbox' = Tail(inbox)
     /\ req' = m
     /\ chunkIdx' = 0
     /\ processedChunks' = 0
     /\ chunkResults' = <<>>
     /\ IF precheck(m) = "ok"
        THEN /\ wpc' = "running"
             /\ UNCHANGED <<outbox, posted, events>>
        ELSE /\ wpc' = "idle"
             /\ Post(ErrorMessage(precheck(m)))
  /\ UNCHANGED <<appVars, panelVars, requests, seriesVars, annotVars>>

\* lines 314-487 and 555-558: one iteration of the chunk loop, processChunk;
\* an exception of getVertexIndex ends the handler in its catch
WorkerChunk ==
  /\ wpc = "running"
  /\ chunkIdx < chunkCount(req)
  /\ LET c == chunkAt(req, chunkIdx) IN
     IF chunkTooSmall(req, c)
     THEN /\ processedChunks' = processedChunks + 1
          /\ Post(ProgressMessage(processedChunks + 1, totalChunks(req)))
          /\ chunkIdx' = chunkIdx + 1
          /\ UNCHANGED <<wpc, chunkResults>>
     ELSE \E stream \in cellStreams(req, c) :
          LET r == runCells(stream) IN
          IF r.thrown
          THEN /\ wpc' = "idle"
               /\ Post(ErrorMessage("budget"))
               /\ UNCHANGED <<chunkIdx, processedChunks, chunkResults>>
          ELSE /\ chunkResults' = pushChunk(chunkResults, r.chunk)
               /\ processedChunks' = processedChunks + 1
               /\ Post(ProgressMessage(processedChunks + 1, totalChunks(req)))
               /\ chunkIdx' = chunkIdx + 1
               /\ UNCHANGED wpc
  /\ UNCHANGED <<appVars, panelVars, inbox, req, requests, seriesVars, annotVars>>

\* the empty marker posted without the return that follows it
WorkerConcatNoReturn ==
  /\ wpc = "running"
  /\ chunkIdx >= chunkCount(req)
  /\ wpc' = "publishing"
  /\ IF Len(chunkResults) = 0
     THEN Post(EmptyMessage)
     ELSE Post(ProgressMessage(1, 1))
  /\ UNCHANGED <<appVars, panelVars, inbox, req, chunkIdx, processedChunks,
                 chunkResults, requests, seriesVars, annotVars>>

\* lines 498-540: after the loop; the empty marker, or the concatenation and
\* the final progress message
WorkerConcat ==
  /\ wpc = "running"
  /\ chunkIdx >= chunkCount(req)
  /\ IF Len(chunkResults) = 0
     THEN /\ wpc' = "idle"
          /\ Post(EmptyMessage)
     ELSE /\ wpc' = "publishing"
          /\ Post(ProgressMessage(1, 1))
  /\ UNCHANGED <<appVars, panelVars, inbox, req, chunkIdx, processedChunks,
                 chunkResults, requests, seriesVars, annotVars>>

\* the mesh posted ahead of the final progress message
WorkerPublishThenProgress ==
  /\ wpc = "publishing"
  /\ wpc' = "idle"
  /\ outbox' = outbox \o <<SuccessMessage(concatChunks(chunkResults)),
                            ProgressMessage(1, 1)>>
  /\ posted' = posted \o <<SuccessMessage(concatChunks(chunkResults)),
                            ProgressMessage(1, 1)>>
  /\ events' = events \o <<[kind |-> "post", type |-> "mesh"],
                            [kind |-> "post", type |-> "progress"]>>
  /\ UNCHANGED <<appVars, panelVars, inbox, req, chunkIdx, processedChunks,
                 chunkResults, requests, seriesVars, annotVars>>

\* lines 542-554: the mesh is posted
WorkerPublish ==
  /\ wpc = "publishing"
  /\ wpc' = "idle"
  /\ Post(SuccessMessage(concatChunks(chunkResults)))
  /\ UNCHANGED <<appVars, panelVars, inbox, req, chunkIdx, processedChunks,
                 chunkResults, requests, seriesVars, annotVars>>

WorkerStep == WorkerReceive \/ WorkerChunk \/ WorkerConcat \/ WorkerPublish

----------------------------------------------------------------------------
(* The extractor on its own: one GenerateMessage, any that the interface    *)
(* of lines 27-36 admits, handled by the worker.                            *)

\* a volume of the given dimensions whose columns x < k hold lo, the others hi
StepField(dims, k, lo, hi) ==
  [i \in 1..(dims[1] * dims[2] * dims[3]) |->
     IF (i - 1) % dims[1] < k THEN lo ELSE hi]

DirectVolumes ==
  { [dims |-> <<2, 2, 2>>, voxels |-> StepField(<<2, 2, 2>>, 1, 0, 2)],
    [dims |-> <<2, 2, 2>>, voxels |-> StepField(<<2, 2, 2>>, 0, 1, 1)],
    [dims |-> <<1, 2, 2>>, voxels |-> StepField(<<1, 2, 2>>, 0, 1, 1)],
    [dims |-> <<2, 2, 1>>, voxels |-> StepField(<<2, 2, 1>>, 1, 0, 2)],
    [dims |-> <<64, 2, 2>>, voxels |-> StepField(<<64, 2, 2>>, 10, 0, 2)],
    [dims |-> <<64, 2, 2>>, voxels |-> StepField(<<64, 2, 2>>, 63, 0, 2)],
    [dims |-> <<126, 2, 2>>, voxels |-> StepField(<<126, 2, 2>>, 63, 0, 2)] }
DirectIsoValues == {Fin(0 - 1), Fin(0), Fin(1), Fin(3), NaN}

DirectMessages ==
  { [voxels |-> Some(v.voxels), dims |-> v.dims, isoValue |-> iso,
     voxelMin |-> IF given THEN Some(SetMin(SeqRange(v.voxels))) ELSE None,
     voxelMax |-> IF given THEN Some(SetMax(SeqRange(v.voxels))) ELSE None] :
      v \in DirectVolumes, iso \in DirectIsoValues, given \in BOOLEAN }
  \cup { [NoRequest EXCEPT !.dims = <<2, 2, 2>>, !.isoValue = Fin(1)] }

InitApp ==
  /\ volumeData = None
  /\ generatedMesh = None
  /\ parsedSeries = None
  /\ parsePending = None
  /\ loads = 0
InitPanel ==
  /\ mounted = TRUE
  /\ isoValue = None
  /\ loading = FALSE
  /\ progress = None
  /\ error = None
InitWorker ==
  /\ inbox = <<>>
  /\ wpc = "idle"
  /\ req = NoRequest
  /\ chunkIdx = 0
  /\ processedChunks = 0
  /\ chunkResults = <<>>
  /\ outbox = <<>>
InitHist ==
  /\ posted = <<>>
  /\ events = <<>>
  /\ requests = 0
InitSeries ==
  /\ files = <<>>
  /\ slices = <<>>
  /\ series = None
InitMeta ==
  /\ volume = [dimensions |-> None, spacing |-> None, orientation |-> None,
               origin |-> None]
  /\ sliceIndex = 0
InitMarks ==
  /\ annotations = <<>>
  /\ selectedAnnotationId = None
  /\ tool = "select"
  /\ arrowDraftStart = None
  /\ arrowFromMarkerId = None
  /\ importError = None
  /\ geo = None
  /\ surface = None

InitWorkerOnly ==
  /\ InitApp /\ InitPanel /\ InitHist /\ InitSeries /\ InitMeta /\ InitMarks
  /\ inbox \in {<<m>> : m \in DirectMessages}
  /\ wpc = "idle"
  /\ req = NoRequest
  /\ chunkIdx = 0
  /\ processedChunks = 0
  /\ chunkResults = <<>>
  /\ outbox = <<>>

SpecWorker == InitWorkerOnly /\ [][WorkerStep]_vars

\* The chunk grid: requests on volumes of one value, and one whose first
\* column lies below the iso-value; each axis in turn and two axes together
\* are taken across the chunk side 64 and the step 62.
GridSizes == {2, 3, 62, 63, 64, 65, 66, 124, 125, 126, 127, 128, 187, 188}
GridDims ==
  {<<n, 2, 2>> : n \in GridSizes} \cup {<<2, n, 2>> : n \in GridSizes}
  \cup {<<2, 2, n>> : n \in GridSizes}
  \cup {<<65, 65, 2>>, <<2, 65, 65>>, <<65, 2, 65>>, <<127, 65, 2>>}
GridMessages ==
  { [voxels |-> Some(StepField(dims, IF dims[1] = 64 THEN 1 ELSE 0, 0, 2)),
     dims |-> dims, isoValue |-> Fin(1),
     voxelMin |-> Some(0), voxelMax |-> Some(2)] : dims \in GridDims }

InitGrid ==
  /\ InitApp /\ InitPanel /\ InitHist /\ InitSeries /\ InitMeta /\ InitMarks
  /\ inbox \in {<<m>> : m \in GridMessages}
  /\ wpc = "idle"
  /\ req = NoRequest
  /\ chunkIdx = 0
  /\ processedChunks = 0
  /\ chunkResults = <<>>
  /\ outbox = <<>>

SpecGrid == InitGrid /\ [][WorkerStep]_vars

----------------------------------------------------------------------------
(* The volume builder: handleSeries and computeAutoIso                      *)
(* (types/dicom-parser.d.ts holds the parse button's code from line 43 on). *)
(* A series is [dimensions, slices]; a slice is its sample payload after    *)
(* the rescale of lines 148-160, a sequence of integers whose length is    *)
(* whatever the file's pixel data element held.                             *)

binCount == 512

sliceSize(s) == s.dimensions[1] * s.dimensions[2]
volumeSize(s) == sliceSize(s) * s.dimensions[3]

\* lines 163-167: the running minimum / maximum over the samples of a payload
recordMin(lo, p) ==
  IF p = <<>> THEN lo
  ELSE IF IsSome(lo) THEN Some(Min2(Get(lo), SetMin(SeqRange(p))))
  ELSE Some(SetMin(SeqRange(p)))
recordMax(hi, p) ==
  IF p = <<>> THEN hi
  ELSE IF IsSome(hi) THEN Some(Max2(Get(hi), SetMax(SeqRange(p))))
  ELSE Some(SetMax(SeqRange(p)))

\* lines 141-178: the loop over z.  rawVolume.set(sliceArray, offset) throws
\* a RangeError when the payload does not fit after the offset, and
\* otherwise overwrites Len(payload) voxels from the offset on.
RECURSIVE fillFrom(_, _, _)
fillFrom(s, z, acc) ==
  IF z >= s.dimensions[3] THEN acc
  ELSE LET p == s.slices[z + 1]
           off == z * sliceSize(s)
       IN IF off + Len(p) > Len(acc.voxels)
          THEN [acc EXCEPT !.thrown = TRUE]
          ELSE fillFrom(s, z + 1,
                 [thrown |-> FALSE,
                  voxels |-> [i \in 1..Len(acc.voxels) |->
                                IF i > off /\ i <= off + Len(p)
                                THEN p[i - off] ELSE acc.voxels[i]],
                  lo |-> recordMin(acc.lo, p),
                  hi |-> recordMax(acc.hi, p)])
\* lines 137-139: new Float32Array(cols * rows * depth), +Infinity, -Infinity
fillVolume(s) ==
  fillFrom(s, 0, [thrown |-> FALSE, voxels |-> [i \in 1..volumeSize(s) |-> 0],
                  lo |-> None, hi |-> None])

\* line 85: the histogram bin of a value
binOf(value, min, max) ==
  Max2(0, Min2(binCount - 1, ((value - min) * (binCount - 1)) \div (max - min)))
\* lines 83-87
histAt(data, min, max, i) ==
  Cardinality({j \in 1..Len(data) : binOf(data[j], min, max) = i})
\* the bins that hold a sample; the loops of lines 94-97 and 104-122 run over
\* every bin, and a bin without a sample changes neither sum nor threshold
occupiedBins(data, min, max) == {binOf(data[j], min, max) : j \in 1..Len(data)}
\* lines 94-97
RECURSIVE sumTotalOver(_, _, _, _)
sumTotalOver(data, min, max, bins) ==
  IF bins = {} THEN 0
  ELSE LET i == SetMin(bins) IN
       i * histAt(data, min, max, i) + sumTotalOver(data, min, max, bins \ {i})

\* lines 104-122: the threshold loop, bins in ascending order.
\* st = [wB, sumB, vn, vd, threshold]; the between-class variance
\* wB*wF*(mB - mF)^2 is the fraction D^2/(wB*wF) with
\* D = sumB*wF - (sumTotal - sumB)*wB, and varMax is vn/vd.
RECURSIVE otsuOver(_, _, _, _, _, _)
otsuOver(data, min, max, sumTotal, bins, st) ==
  IF bins = {} THEN st.threshold
  ELSE LET i == SetMin(bins)
           h == histAt(data, min, max, i)
           wB == st.wB + h
           wF == Len(data) - wB
           sumB == st.sumB + i * h
           D == sumB * wF - (sumTotal - sumB) * wB
       IN IF wF = 0 THEN st.threshold
          ELSE IF D * D * st.vd > st.vn * wB * wF
          THEN otsuOver(data, min, max, sumTotal, bins \ {i},
                 [wB |-> wB, sumB |-> sumB, vn |-> D * D, vd |-> wB * wF,
                  threshold |-> i])
          ELSE otsuOver(data, min, max, sumTotal, bins \ {i},
                 [st EXCEPT !.wB = wB, !.sumB = sumB])

\* the threshold scaled to the range without the minimum added
computeAutoIsoFromZero(data, min, max) ==
  IF min >= max \/ Len(data) = 0 THEN Rat(min + max, 2)
  ELSE LET bins == occupiedBins(data, min, max)
           threshold ==
             otsuOver(data, min, max, sumTotalOver(data, min, max, bins), bins,
                      [wB |-> 0, sumB |-> 0, vn |-> 0 - 1, vd |-> 1, threshold |-> 0])
       IN Rat(threshold * (max - min), binCount - 1)

\* lines 75-126
computeAutoIso(data, min, max) ==
  IF min >= max \/ Len(data) = 0 THEN Rat(min + max, 2)
  ELSE LET bins == occupiedBins(data, min, max)
           threshold ==
             otsuOver(data, min, max, sumTotalOver(data, min, max, bins), bins,
                      [wB |-> 0, sumB |-> 0, vn |-> 0 - 1, vd |-> 1, threshold |-> 0])
       IN Rat(min * (binCount - 1) + threshold * (max - min), binCount - 1)

\* lines 182-200: the VolumeData handleSeries stores, from a filled volume
makeVolumeData(s, f) ==
  LET voxelMin == IF IsSome(f.lo) /\ IsSome(f.hi) THEN Get(f.lo) ELSE 0
      voxelMax == IF IsSome(f.lo) /\ IsSome(f.hi) THEN Get(f.hi) ELSE 0
  IN [width |-> s.dimensions[1], height |-> s.dimensions[2],
      depth |-> s.dimensions[3], voxels |-> f.voxels,
      voxelMin |-> voxelMin, voxelMax |-> voxelMax,
      autoIso |-> computeAutoIso(f.voxels, voxelMin, voxelMax)]

\* the series the parse button is given: slice payloads of a 2 x 2 image,
\* of the expected length or not
StepSlice == <<0, 2, 0, 2>>
FlatSlice == <<1, 1, 1, 1>>
HighSlice == <<2, 2, 2, 2>>
LongSlice == <<0, 2, 0, 2, 0 - 3>>
ShortSlice == <<2, 2, 2>>
SeriesOf(payloads) ==
  [dimensions |-> <<2, 2, Len(payloads)>>, slices |-> payloads,
   spacing |-> <<1, 1, 2>>, origin |-> Some(<<10, 20, 30>>),
   orientation |-> Some(<<1, 0, 0, 0, 1, 0>>)]
LoadSeries ==
  { SeriesOf(<<StepSlice, StepSlice>>),
    SeriesOf(<<FlatSlice, FlatSlice>>),
    SeriesOf(<<LongSlice, StepSlice>>),
    SeriesOf(<<StepSlice, LongSlice>>),
    SeriesOf(<<ShortSlice, HighSlice>>),
    SeriesOf(<<StepSlice>>),
    [SeriesOf(<<StepSlice>>) EXCEPT !.orientation = None] }

\* MeshGeneratorPanel lines 93-100: the effect that follows volumeData
initialIso(vd) ==
  IF vd = None THEN None ELSE Some(Get(vd).autoIso)

(***************************************************************************)
(* Numbers of the coordinate code: rationals <<n, d>> in lowest terms with *)
(* d > 0, for the doubles of the source.                                    *)
(***************************************************************************)
RECURSIVE gcd(_, _)
\* F of the value of v, with v evaluated once
Once(v, F(_)) == CHOOSE y \in {F(x) : x \in {v}} : TRUE

gcd(a, b) == IF b = 0 THEN a ELSE gcd(b, a % b)
Q(n, d) ==
  LET an == IF n < 0 THEN 0 - n ELSE n
      ad == IF d < 0 THEN 0 - d ELSE d
      g  == gcd(an, ad)
  IN << (IF d < 0 THEN 0 - n ELSE n) \div g, ad \div g >>
QAdd(a, b) == Q(a[1] * b[2] + b[1] * a[2], a[2] * b[2])
QSub(a, b) == Q(a[1] * b[2] - b[1] * a[2], a[2] * b[2])
QMul(a, b) == Q(a[1] * b[1], a[2] * b[2])
QDiv(a, b) == Q(a[1] * b[2], a[2] * b[1])
QLt(a, b) == a[1] * b[2] < b[1] * a[2]

(***************************************************************************)
(* lib/dicom/geometry (exportSr.ts lines 132-231).  A thrown Error is the  *)
(* record ParseError(message); a value v is returned as [ok, value].        *)
(***************************************************************************)
normalizedToVoxel(position, dims) ==
  [k \in 1..3 |-> QMul(position[k], Q(dims[k] - 1, 1))]

voxelToNormalized(voxel, dims) ==
  [k \in 1..3 |-> IF dims[k] > 1 THEN QDiv(voxel[k], Q(dims[k] - 1, 1))
                  ELSE Q(0, 1)]

\* lines 153-163: the columns of the matrix are the row, column and slice
\* directions
orientationMatrix(vol) ==
  IF vol.orientation = None \/ Len(Get(vol.orientation)) # 9
  THEN ParseError("Volume orientation must contain 9 elements.")
  ELSE LET o == Get(vol.orientation)
       IN [ok |-> TRUE,
           value |-> << <<o[1], o[4], o[7]>>,
                        <<o[2], o[5], o[8]>>,
                        <<o[3], o[6], o[9]>> >>]

\* lines 165-191
invert3x3(m) ==
  LET a == m[1]
      b == m[2]
      c == m[3]
      M2(p, q, r, t) == QSub(QMul(p, q), QMul(r, t))
      abs(q) == IF q[1] < 0 THEN Q(0 - q[1], q[2]) ELSE q
  IN Once(QAdd(QSub(QMul(a[1], M2(b[2], c[3], b[3], c[2])),
                    QMul(a[2], M2(b[1], c[3], b[3], c[1]))),
               QMul(a[3], M2(b[1], c[2], b[2], c[1]))),
       LAMBDA det :
         IF QLt(abs(det), Q(1, 100000000))
         THEN ParseError("Orientation matrix not invertible.")
         ELSE LET invDet == QDiv(Q(1, 1), det)
              IN [ok |-> TRUE,
                  value |->
                    << << QMul(M2(b[2], c[3], b[3], c[2]), invDet),
                          QMul(M2(a[3], c[2], a[2], c[3]), invDet),
                          QMul(M2(a[2], b[3], a[3], b[2]), invDet) >>,
                       << QMul(M2(b[3], c[1], b[1], c[3]), invDet),
                          QMul(M2(a[1], c[3], a[3], c[1]), invDet),
                          QMul(M2(a[3], b[1], a[1], b[3]), invDet) >>,
                       << QMul(M2(b[1], c[2], b[2], c[1]), invDet),
                          QMul(M2(a[2], c[1], a[1], c[2]), invDet),
                          QMul(M2(a[1], b[2], a[2], b[1]), invDet) >> >>])

\* lines 193-211
voxelToPatient(voxel, vol) ==
  IF vol.spacing = None \/ vol.origin = None
  THEN ParseError("Volume spacing/origin missing.")
  ELSE LET spacing == Get(vol.spacing)
           origin == Get(vol.origin)
           m == orientationMatrix(vol)
           scaled == [k \in 1..3 |-> QMul(voxel[k], spacing[k])]
       IN IF ~m.ok THEN m
          ELSE [ok |-> TRUE,
                value |->
                  [k \in 1..3 |->
                     QAdd(QAdd(QAdd(origin[k],
                                    QMul(m.value[k][1], scaled[1])),
                               QMul(m.value[k][2], scaled[2])),
                          QMul(m.value[k][3], scaled[3]))]]

\* a conversion back that leaves the spacing out
patientToVoxelUnscaled(patient, vol) ==
  LET m == orientationMatrix(vol)
      diff == [k \in 1..3 |-> QSub(patient[k], Get(vol.origin)[k])]
  IN IF ~m.ok THEN m
     ELSE Once(invert3x3(m.value),
            LAMBDA inv :
              IF ~inv.ok THEN inv
              ELSE [ok |-> TRUE,
                    value |-> [k \in 1..3 |->
                                 QAdd(QAdd(QMul(inv.value[k][1], diff[1]),
                                           QMul(inv.value[k][2], diff[2])),
                                      QMul(inv.value[k][3], diff[3]))]])

\* lines 213-231
patientToVoxel(patient, vol) ==
  IF vol.spacing = None \/ vol.origin = None
  THEN ParseError("Volume spacing/origin missing.")
  ELSE LET spacing == Get(vol.spacing)
           origin == Get(vol.origin)
           m == orientationMatrix(vol)
           diff == [k \in 1..3 |-> QSub(patient[k], origin[k])]
       IN IF ~m.ok THEN m
          ELSE Once(invert3x3(m.value),
                 LAMBDA inv :
                   IF ~inv.ok THEN inv
                   ELSE [ok |-> TRUE,
                         value |->
                           [k \in 1..3 |->
                              QDiv(QAdd(QAdd(QMul(inv.value[k][1], diff[1]),
                                             QMul(inv.value[k][2], diff[2])),
                                        QMul(inv.value[k][3], diff[3])),
                                   spacing[k])]])

\* marchingCubes.worker.ts lines 274-286: the position the worker gives a
\* grid point, from the spacing, origin and direction of its message
gridToWorld(g, spacing, origin, direction) ==
  LET dir == IF direction # None /\ Len(Get(direction)) = 9
             THEN Get(direction)
             ELSE [k \in 1..9 |-> Q(IF k \in {1, 5, 9} THEN 1 ELSE 0, 1)]
      rowDir == SubSeq(dir, 1, 3)
      colDir == SubSeq(dir, 4, 6)
      sliceDir == SubSeq(dir, 7, 9)
  IN [k \in 1..3 |->
        QAdd(QAdd(QAdd(origin[k],
                       QMul(rowDir[k], QMul(g[1], spacing[1]))),
                  QMul(colDir[k], QMul(g[2], spacing[2]))),
             QMul(sliceDir[k], QMul(g[3], spacing[3])))]

\* types/dicom-parser.d.ts lines 56-73; the directions of the inputs have a
\* whole length
orientationToMatrix(orientation6) ==
  IF orientation6 = None \/ Len(Get(orientation6)) # 6 THEN None
  ELSE LET o == Get(orientation6)
           hypot(v) == LET l2 == v[1] * v[1] + v[2] * v[2] + v[3] * v[3]
                       IN CHOOSE l \in 0..l2 : l * l = l2
           norm(v) == LET len == IF hypot(v) = 0 THEN 1 ELSE hypot(v)
                      IN [k \in 1..3 |-> Q(v[k], len)]
           r == SubSeq(o, 1, 3)
           c == SubSeq(o, 4, 6)
           row == norm(r)
           col == norm(c)
           cross(x, y, z, w) == QSub(QMul(x, y), QMul(z, w))
           s == << cross(row[2], col[3], row[3], col[2]),
                   cross(row[3], col[1], row[1], col[3]),
                   cross(row[1], col[2], row[2], col[1]) >>
           sLen == CHOOSE l \in 0..1 :
                     l * l = s[1][1] * s[1][1] + s[2][1] * s[2][1]
                             + s[3][1] * s[3][1]
           slice == [k \in 1..3 |-> Q(s[k][1], IF sLen = 0 THEN 1 ELSE sLen)]
       IN Some(<<row[1], row[2], row[3], col[1], col[2], col[3],
                 slice[1], slice[2], slice[3]>>)

\* handleSeries lines 187-192: the argument of setVolume
volumeMeta(s) ==
  [dimensions |-> Some(s.dimensions),
   spacing |-> Some([k \in 1..3 |-> Q(s.spacing[k], 1)]),
   orientation |-> orientationToMatrix(s.orientation),
   origin |-> IF s.origin = None THEN None
              ELSE Some([k \in 1..3 |-> Q(Get(s.origin)[k], 1)])]

\* AppState.tsx lines 137-144: the slice setVolumeData selects
middleSlice(depth) == Min2(Max2(0, depth \div 2), depth - 1)

\* handleSeries lines 134-135: setParsedSeries, then the await
ParseStart ==
  /\ mounted
  /\ parsePending = None
  /\ loads < MaxLoads
  /\ \E s \in LoadSeries :
       /\ parsedSeries' = Some(s)
       /\ parsePending' = Some(s)
  /\ loads' = loads + 1
  /\ UNCHANGED <<volumeData, generatedMesh, panelVars, workerVars, histVars,
                 seriesVars, annotVars>>

\* handleSeries lines 136-212 and the catch of lines 226-230: the volume is
\* built and stored, or the RangeError of rawVolume.set ends the load
ParseFinish ==
  /\ parsePending # None
  /\ parsePending' = None
  /\ LET s == Get(parsePending)
         f == fillVolume(s)
     IN IF f.thrown
        THEN UNCHANGED <<volumeData, generatedMesh, isoValue, metaVars>>
        ELSE /\ volume' = volumeMeta(s)
             /\ volumeData' = Some(makeVolumeData(s, f))
             /\ sliceIndex' = middleSlice(s.dimensions[3])
             /\ generatedMesh' = None
             /\ isoValue' = IF mounted THEN initialIso(volumeData') ELSE isoValue
  /\ UNCHANGED <<parsedSeries, loads, mounted, loading, progress, error,
                 workerVars, histVars, seriesVars, markVars>>

\* MeshGeneratorPanel lines 32-33
minIso == IF volumeData = None THEN 0 ELSE Get(volumeData).voxelMin
maxIso == IF volumeData = None THEN 1 ELSE Get(volumeData).voxelMax

\* numbers typed into the iso-value field
TypedIso == {0 - 1, 1}

\* lines 139-141: the slider, moved to one of its ends
\* (its stops lie in [floor(minIso), ceil(maxIso)])
handleIsoChange ==
  /\ mounted
  /\ \E v \in {minIso, maxIso} : isoValue' = Some(Fin(v))
  /\ UNCHANGED <<appVars, mounted, loading, progress, error, workerVars,
                 histVars, seriesVars, annotVars>>

\* lines 143-156: the text field; "" clears the value, a number is clamped
handleIsoInputChange ==
  /\ mounted
  /\ \/ isoValue' = None
     \/ \E parsed \in TypedIso :
          isoValue' = Some(Fin(Min2(maxIso, Max2(minIso, parsed))))
  /\ UNCHANGED <<appVars, mounted, loading, progress, error, workerVars,
                 histVars, seriesVars, annotVars>>

\* lines 180-191: the "Use Auto" button
useAuto ==
  /\ mounted
  /\ volumeData # None
  /\ isoValue' = Some(Get(volumeData).autoIso)
  /\ UNCHANGED <<appVars, mounted, loading, progress, error, workerVars,
                 histVars, seriesVars, annotVars>>

\* lines 102-111: the Generate button is disabled
disabled ==
  \/ volumeData = None
  \/ Get(volumeData).width = 0
  \/ Get(volumeData).height = 0
  \/ Get(volumeData).depth = 0
  \/ isoValue = None
  \/ loading

\* lines 120-129: the message onGenerate posts
GenerateMessage(vd, iso) ==
  [voxels |-> Some(vd.voxels), dims |-> <<vd.width, vd.height, vd.depth>>,
   isoValue |-> iso, voxelMin |-> Some(vd.voxelMin), voxelMax |-> Some(vd.voxelMax)]

\* lines 113-131
onGenerate ==
  /\ mounted
  /\ ~disabled
  /\ requests < MaxRequests
  /\ loading' = TRUE
  /\ progress' = Some(<<0, 1>>)
  /\ error' = None
  /\ generatedMesh' = None
  /\ inbox' = Append(inbox, GenerateMessage(Get(volumeData), Get(isoValue)))
  /\ requests' = requests + 1
  /\ posted' = <<>>
  /\ events' = <<>>
  /\ UNCHANGED <<volumeData, parsedSeries, parsePending, loads, mounted,
                 isoValue, wpc, req, chunkIdx, processedChunks, chunkResults,
                 outbox, seriesVars, annotVars>>

\* a handler that leaves the loading flag alone on an error
handlerErrorKeepsLoading ==
  /\ mounted
  /\ outbox # <<>>
  /\ LET data == Head(outbox) IN
     /\ outbox' = Tail(outbox)
     /\ events' = Append(events, [kind |-> "deliver", type |-> data.type])
     /\ CASE data.type = "progress" ->
               /\ progress' = Some(<<data.num, data.den>>)
               /\ UNCHANGED <<generatedMesh, loading, error>>
          [] data.type = "error" ->
               /\ error' = Some(data.error)
               /\ progress' = None
               /\ UNCHANGED <<generatedMesh, loading>>
          [] data.type = "empty" ->
               /\ generatedMesh' = None
               /\ error' = Some("empty")
               /\ loading' = FALSE
               /\ progress' = None
          [] data.type = "mesh" ->
               /\ generatedMesh' =
                    Some([positions |-> data.positions, indices |-> data.indices])
               /\ loading' = FALSE
               /\ error' = None
               /\ progress' = None
  /\ UNCHANGED <<volumeData, parsedSeries, parsePending, loads, mounted,
                 isoValue, inbox, wpc, req, chunkIdx, processedChunks,
                 chunkResults, posted, requests, seriesVars, annotVars>>

\* lines 35-85: the panel's message handler, on the oldest message in flight
handler ==
  /\ mounted
  /\ outbox # <<>>
  /\ LET data == Head(outbox) IN
     /\ outbox' = Tail(outbox)
     /\ events' = Append(events, [kind |-> "deliver", type |-> data.type])
     /\ CASE data.type = "progress" ->
               /\ progress' = Some(<<data.num, data.den>>)
               /\ UNCHANGED <<generatedMesh, loading, error>>
          [] data.type = "error" ->
               /\ error' = Some(data.error)
               /\ loading' = FALSE
               /\ progress' = None
               /\ UNCHANGED generatedMesh
          [] data.type = "empty" ->
               /\ generatedMesh' = None
               /\ error' = Some("empty")
               /\ loading' = FALSE
               /\ progress' = None
          [] data.type = "mesh" ->
               /\ generatedMesh' =
                    Some([positions |-> data.positions, indices |-> data.indices])
               /\ loading' = FALSE
               /\ error' = None
               /\ progress' = None
  /\ UNCHANGED <<volumeData, parsedSeries, parsePending, loads, mounted,
                 isoValue, inbox, wpc, req, chunkIdx, processedChunks,
                 chunkResults, posted, requests, seriesVars, annotVars>>

\* the entry of the request's log for the end of the worker it was posted to
Teardown == [kind |-> "teardown", type |-> "none"]

\* the panel unmounted with its worker left running
hideSidebarKeepWorker ==
  /\ mounted
  /\ mounted' = FALSE
  /\ events' = IF requests = 0 \/ Teardown \in SeqRange(events) THEN events
                ELSE Append(events, Teardown)
  /\ isoValue' = None
  /\ loading' = FALSE
  /\ progress' = None
  /\ error' = None
  /\ UNCHANGED <<appVars, workerVars, posted, requests, seriesVars, annotVars>>

\* WorkspaceLayout toggleSidebar hiding the sidebar: the panel unmounts and
\* its cleanup (MeshGeneratorPanel lines 87-90) removes the listener and
\* terminates the worker
hideSidebar ==
  /\ mounted
  /\ mounted' = FALSE
  /\ wpc' = "terminated"
  /\ inbox' = <<>>
  /\ outbox' = <<>>
  /\ events' = IF requests = 0 \/ Teardown \in SeqRange(events) THEN events
                ELSE Append(events, Teardown)
  /\ isoValue' = None
  /\ loading' = FALSE
  /\ progress' = None
  /\ error' = None
  /\ UNCHANGED <<appVars, req, chunkIdx, processedChunks, chunkResults,
                 posted, requests, seriesVars, annotVars>>

\* toggleSidebar showing the sidebar again: a new panel (lines 21-25), a new
\* worker (lines 27-30), and the iso-value effect of lines 93-100
showSidebar ==
  /\ ~mounted
  /\ mounted' = TRUE
  /\ isoValue' = initialIso(volumeData)
  /\ loading' = FALSE
  /\ progress' = None
  /\ error' = None
  /\ wpc' = "idle"
  /\ inbox' = <<>>
  /\ outbox' = <<>>
  /\ req' = NoRequest
  /\ chunkIdx' = 0
  /\ processedChunks' = 0
  /\ chunkResults' = <<>>
  /\ UNCHANGED <<appVars, histVars, seriesVars, annotVars>>

Init ==
  /\ InitApp /\ InitPanel /\ InitWorker /\ InitHist /\ InitSeries
  /\ InitMeta /\ InitMarks

Next ==
  \/ ParseStart
  \/ ParseFinish
  \/ handleIsoChange
  \/ handleIsoInputChange
  \/ useAuto
  \/ onGenerate
  \/ handler
  \/ hideSidebar
  \/ showSidebar
  \/ WorkerReceive
  \/ WorkerChunk
  \/ WorkerConcat
  \/ WorkerPublish

Spec == Init /\ [][Next]_vars

\* The panel and its worker on a series that has been loaded, with the two
\* event loops running: the worker's, which takes a posted message and runs
\* self.onmessage to its end, and the page's, which dispatches each message
\* event to the panel's handler.
InitLive ==
  /\ InitWorker /\ InitHist /\ InitSeries /\ InitMarks
  /\ generatedMesh = None
  /\ parsePending = None
  /\ loads = 0
  /\ \E s \in {t \in LoadSeries : ~fillVolume(t).thrown} :
       /\ parsedSeries = Some(s)
       /\ volumeData = Some(makeVolumeData(s, fillVolume(s)))
       /\ volume = volumeMeta(s)
       /\ sliceIndex = middleSlice(s.dimensions[3])
  /\ mounted = TRUE
  /\ isoValue = initialIso(volumeData)
  /\ loading = FALSE
  /\ progress = None
  /\ error = None

NextLive ==
  \/ handleIsoChange
  \/ handleIsoInputChange
  \/ useAuto
  \/ onGenerate
  \/ handler
  \/ hideSidebar
  \/ showSidebar
  \/ WorkerReceive
  \/ WorkerChunk
  \/ WorkerConcat
  \/ WorkerPublish

SpecLive ==
  InitLive /\ [][NextLive]_vars /\ WF_vars(WorkerStep) /\ WF_vars(handler)

\* the application with a series of two slices loaded and the panel showing
\* its automatic iso-value, when a further series may be loaded
InitNextSeries ==
  /\ InitWorker /\ InitHist /\ InitSeries /\ InitMarks
  /\ generatedMesh = None
  /\ parsePending = None
  /\ loads = 0
  /\ parsedSeries = Some(SeriesOf(<<StepSlice, StepSlice>>))
  /\ volumeData = Some(makeVolumeData(Get(parsedSeries),
                                      fillVolume(Get(parsedSeries))))
  /\ volume = volumeMeta(Get(parsedSeries))
  /\ sliceIndex = middleSlice(2)
  /\ mounted = TRUE
  /\ isoValue = initialIso(volumeData)
  /\ loading = FALSE
  /\ progress = None
  /\ error = None

SpecNextSeries == InitNextSeries /\ [][Next]_vars

----------------------------------------------------------------------------
(***************************************************************************)
(* Annotations: the store (state/AppState.tsx), the slice viewer           *)
(* (SliceViewer), the annotation list, the SR export                       *)
(* (lib/dicom/exportSr.ts) and the SR import                               *)
(* (components/ImportSRPanel.tsx).                                         *)
(***************************************************************************)
MaxAnnotations == 2

Tools == {"select", "marker", "arrow", "label"}

\* getNormFromEvent: the places of the overlay the pointer is at
ClickPoints == { <<Q(0, 1), Q(0, 1)>>, <<Q(1, 1), Q(1, 2)>> }

\* prompt('Label text?') || '': cancelled or left empty, or a text
PromptAnswers == {"", "lesion"}

\* the argument of addAnnotation (no id yet)
Annotation(type, position, arrowTo, slice, labelText, linkedToId) ==
  [id |-> 0, type |-> type, position |-> position, arrowTo |-> arrowTo,
   sliceIndex |-> slice, labelText |-> labelText, linkedToId |-> linkedToId]

\* crypto.randomUUID(): an id that nothing in the state holds
randomUUID(prev) ==
  LET held == {prev[i].id : i \in 1..Len(prev)}
              \cup UNION {SeqRange(prev[i].linkedToId) : i \in 1..Len(prev)}
              \cup SeqRange(selectedAnnotationId)
              \cup SeqRange(arrowFromMarkerId)
  IN CHOOSE id \in 1..(Cardinality(held) + 1) : id \notin held

\* AppState.tsx lines 104-109, the list after the update
addAnnotation(prev, a) == Append(prev, [a EXCEPT !.id = randomUUID(prev)])

\* lines 111-113
updateAnnotation(prev, id, patch) ==
  [i \in 1..Len(prev) |->
     IF prev[i].id = id
     THEN [f \in DOMAIN prev[i] |->
             IF f \in DOMAIN patch THEN patch[f] ELSE prev[i][f]]
     ELSE prev[i]]

\* lines 115-118
deleteAnnotation(id) ==
  /\ annotations' = SelectSeq(annotations, LAMBDA x : x.id # id)
  /\ selectedAnnotationId' =
       IF selectedAnnotationId = Some(id) THEN None ELSE selectedAnnotationId

\* the toolbox: setTool (AppState.tsx line 150)
setTool ==
  /\ \E t \in Tools : tool' = t
  /\ UNCHANGED <<appVars, panelVars, workerVars, histVars, seriesVars, metaVars,
                 annotations, selectedAnnotationId, arrowDraftStart,
                 arrowFromMarkerId, importError, geo, surface>>

\* the slice slider: setSliceIndex (AppState.tsx lines 146-148)
setSliceIndex ==
  /\ \E i \in 0..2 :
       sliceIndex' = IF volumeData # None
                     THEN Max2(0, Min2(Get(volumeData).depth - 1, i))
                     ELSE 0
  /\ UNCHANGED <<appVars, panelVars, workerVars, histVars, seriesVars, volume,
                 markVars>>

\* the toolbox: "Clear All" (AppState.tsx lines 120-123)
clearAnnotations ==
  /\ annotations' = <<>>
  /\ selectedAnnotationId' = None
  /\ UNCHANGED <<appVars, panelVars, workerVars, histVars, seriesVars, metaVars,
                 tool, arrowDraftStart, arrowFromMarkerId,
                 importError, geo, surface>>

\* the annotation list: the delete button of an entry
deleteFromList ==
  /\ \E i \in 1..Len(annotations) : deleteAnnotation(annotations[i].id)
  /\ UNCHANGED <<appVars, panelVars, workerVars, histVars, seriesVars, metaVars,
                 tool, arrowDraftStart, arrowFromMarkerId,
                 importError, geo, surface>>

\* SliceViewer lines 93-106: Delete/Backspace and Escape
onKey ==
  /\ \/ /\ selectedAnnotationId # None
        /\ deleteAnnotation(Get(selectedAnnotationId))
        /\ UNCHANGED <<arrowDraftStart, arrowFromMarkerId>>
     \/ /\ arrowDraftStart' = None
        /\ arrowFromMarkerId' = None
        /\ selectedAnnotationId' = None
        /\ UNCHANGED annotations
  /\ UNCHANGED <<appVars, panelVars, workerVars, histVars, seriesVars, metaVars,
                 tool, importError, geo, surface>>

\* the z of the slice shown, as the slice viewer computes it
sliceZ == IF Get(volumeData).depth <= 1 THEN Q(0, 1)
          ELSE Q(sliceIndex, Get(volumeData).depth - 1)

\* SliceViewer lines 122-195
handleOverlayClick ==
  /\ volumeData # None
  /\ \E n \in ClickPoints, text \in PromptAnswers :
       CASE tool = "select" ->
              /\ selectedAnnotationId' = None
              /\ UNCHANGED <<annotations, arrowDraftStart, arrowFromMarkerId>>
         [] tool \in {"marker", "label"} ->
              /\ Len(annotations) < MaxAnnotations
              /\ annotations' =
                   addAnnotation(annotations,
                     IF tool = "marker"
                     THEN Annotation("marker", <<n[1], n[2], sliceZ>>, None,
                                     Some(sliceIndex), None, None)
                     ELSE Annotation("label", <<n[1], n[2], sliceZ>>, None,
                                     Some(sliceIndex), Some(text), None))
              /\ selectedAnnotationId' = Some(annotations'[Len(annotations')].id)
              /\ UNCHANGED <<arrowDraftStart, arrowFromMarkerId>>
         [] tool = "arrow" /\ arrowDraftStart = None ->
              LET sel == {i \in 1..Len(annotations) :
                            /\ Some(annotations[i].id) = selectedAnnotationId
                            /\ annotations[i].type = "marker"
                            /\ annotations[i].sliceIndex = Some(sliceIndex)}
              IN /\ IF sel # {}
                    THEN LET a == annotations[CHOOSE i \in sel : TRUE]
                         IN /\ arrowDraftStart' =
                                 Some(<<a.position[1], a.position[2]>>)
                            /\ arrowFromMarkerId' = Some(a.id)
                    ELSE /\ arrowDraftStart' = Some(n)
                         /\ arrowFromMarkerId' = None
                 /\ UNCHANGED <<annotations, selectedAnnotationId>>
         [] tool = "arrow" /\ arrowDraftStart # None ->
              LET start == Get(arrowDraftStart)
                  dx == QSub(n[1], start[1])
                  dy == QSub(n[2], start[2])
                  dist2 == QAdd(QMul(dx, dx), QMul(dy, dy))
              IN /\ arrowDraftStart' = None
                 /\ arrowFromMarkerId' = None
                 /\ IF QLt(dist2, Q(1, 1000000))
                    THEN UNCHANGED <<annotations, selectedAnnotationId>>
                    ELSE /\ Len(annotations) < MaxAnnotations
                         /\ annotations' =
                              addAnnotation(annotations,
                                Annotation("arrow", <<start[1], start[2], sliceZ>>,
                                           Some(<<n[1], n[2], sliceZ>>),
                                           Some(sliceIndex), None,
                                           arrowFromMarkerId))
                         /\ selectedAnnotationId' =
                              Some(annotations'[Len(annotations')].id)
  /\ UNCHANGED <<appVars, panelVars, workerVars, histVars, seriesVars, metaVars,
                 tool, importError, geo, surface>>

\* Viewer3D's onAnnotClick (lines 212-244) is passed only to AxialSlice
\* (lines 73-113), which Viewer3D never renders: no event reaches it, and
\* the slice viewer is the one place annotations are placed.

\* SliceViewer lines 197-206: the annotations drawn on the slice shown
visible(a) ==
  IF a.sliceIndex # None THEN a.sliceIndex = Some(sliceIndex)
  ELSE LET d == QSub(a.position[3], sliceZ)
       IN QLt(IF d[1] < 0 THEN Q(0 - d[1], d[2]) ELSE d, Q(1, 1000))

\* SliceViewer lines 209-240: a marker or label is pressed and moved
onMouseDownMarker ==
  /\ volumeData # None
  /\ \E i \in 1..Len(annotations), n \in ClickPoints :
       LET a == annotations[i]
           position == <<n[1], n[2], a.position[3]>>
           moved == updateAnnotation(annotations, a.id, [position |-> position])
           linked == {j \in 1..Len(annotations) :
                        /\ annotations[j].type = "arrow"
                        /\ annotations[j].linkedToId = Some(a.id)
                        /\ annotations[j].sliceIndex = Some(sliceIndex)}
       IN /\ a.type \in {"marker", "label"}
          /\ visible(a)
          /\ selectedAnnotationId' = Some(a.id)
          /\ annotations' =
               IF a.type = "marker"
               THEN [j \in 1..Len(moved) |->
                       IF j \in linked
                       THEN [moved[j] EXCEPT !.position = position]
                       ELSE moved[j]]
               ELSE moved
  /\ UNCHANGED <<appVars, panelVars, workerVars, histVars, seriesVars, metaVars,
                 tool, arrowDraftStart, arrowFromMarkerId,
                 importError, geo, surface>>

\* SliceViewer lines 242-269: a handle of an arrow is pressed and moved
onMouseDownArrowHandle ==
  /\ volumeData # None
  /\ \E i \in 1..Len(annotations), n \in ClickPoints,
        endpoint \in {"start", "end"} :
       LET a == annotations[i]
           moved == <<n[1], n[2], a.position[3]>>
       IN /\ a.type = "arrow"
          /\ visible(a)
          /\ selectedAnnotationId' = Some(a.id)
          /\ annotations' =
               IF endpoint = "start"
               THEN updateAnnotation(annotations, a.id,
                                     [position |-> moved, linkedToId |-> None])
               ELSE updateAnnotation(annotations, a.id,
                                     [arrowTo |-> Some(moved)])
  /\ UNCHANGED <<appVars, panelVars, workerVars, histVars, seriesVars, metaVars,
                 tool, arrowDraftStart, arrowFromMarkerId,
                 importError, geo, surface>>

\* exportSr.ts lines 24-78: the content items of an annotation (the
\* referenced image of lines 33-37 and 55-62 is not read back by the import)
annotationToContentItem(annotation, vol) ==
  LET dims == Get(vol.dimensions)
      patient(p) == voxelToPatient(normalizedToVoxel(p, dims), vol).value
      pt == patient(annotation.position)
      arrow == annotation.type = "arrow"
      baseContent ==
        [ValueType |-> "SCOORD3D",
         GraphicType |-> IF arrow THEN "POLYLINE" ELSE "POINT",
         GraphicData |-> Some(IF arrow /\ annotation.arrowTo # None
                              THEN pt \o patient(Get(annotation.arrowTo))
                              ELSE pt),
         TextValue |-> None]
  IN IF annotation.labelText # None /\ Get(annotation.labelText) # ""
     THEN <<baseContent,
            [ValueType |-> "TEXT", GraphicType |-> "", GraphicData |-> None,
             TextValue |-> annotation.labelText]>>
     ELSE <<baseContent>>

\* lines 119-122
RECURSIVE ContentSequence(_, _)
ContentSequence(list, vol) ==
  IF list = <<>> THEN <<>>
  ELSE annotationToContentItem(Head(list), vol)
         \o ContentSequence(Tail(list), vol)

\* lines 18-22 and 80-130: the file written, as the content items a reader
\* finds in it
exportAnnotationsToSR(list, vol) ==
  IF list = <<>> THEN ParseError("No annotations to export.")
  ELSE IF vol.spacing = None \/ vol.dimensions = None
  THEN ParseError("Volume spacing/dimensions missing.")
  ELSE IF vol.origin = None \/ vol.orientation = None
  THEN ParseError("Volume origin/orientation missing.")
  ELSE [ok |-> TRUE,
        value |-> [readable |-> TRUE, items |-> ContentSequence(list, vol)]]

\* ImportSRPanel.tsx lines 15-21
clampNorm(coord) ==
  [k \in 1..3 |-> IF QLt(coord[k], Q(0, 1)) THEN Q(0, 1)
                  ELSE IF QLt(Q(1, 1), coord[k]) THEN Q(1, 1)
                  ELSE coord[k]]

\* the loop with a TEXT item that leaves a text already set as it is
RECURSIVE importItemsKeepText(_, _, _, _)
importItemsKeepText(items, i, found, vol) ==
  IF i > Len(items) THEN [ok |-> TRUE, value |-> found]
  ELSE
    LET item == items[i]
        dims == Get(vol.dimensions)
    IN IF item.ValueType = "SCOORD3D" /\ item.GraphicData # None
       THEN LET coords == Get(item.GraphicData)
                type == IF item.GraphicType = "POLYLINE" /\ Len(coords) >= 6
                        THEN "arrow" ELSE "marker"
                endVoxel == patientToVoxel(SubSeq(coords, 4, 6), vol)
            IN Once(patientToVoxel(SubSeq(coords, 1, 3), vol),
                 LAMBDA startVoxel :
                   IF ~startVoxel.ok THEN startVoxel
                   ELSE Once(
                          Append(found,
                            [type |-> type,
                             position |->
                               clampNorm(voxelToNormalized(startVoxel.value,
                                                           dims)),
                             arrowTo |->
                               IF type = "arrow"
                               THEN Some(clampNorm(
                                      voxelToNormalized(endVoxel.value, dims)))
                               ELSE None,
                             labelText |-> None]),
                          LAMBDA next :
                            importItemsKeepText(items, i + 1, next, vol)))
       ELSE IF /\ item.ValueType = "TEXT" /\ Len(found) > 0
               /\ item.TextValue # None /\ Get(item.TextValue) # ""
               /\ found[Len(found)].labelText = None
       THEN Once([found EXCEPT ![Len(found)].type = "label",
                               ![Len(found)].labelText = item.TextValue],
              LAMBDA next : importItemsKeepText(items, i + 1, next, vol))
       ELSE importItemsKeepText(items, i + 1, found, vol)

\* lines 46-72: the loop over the content items, from item i on
RECURSIVE importItems(_, _, _, _)
importItems(items, i, found, vol) ==
  IF i > Len(items) THEN [ok |-> TRUE, value |-> found]
  ELSE
    LET item == items[i]
        dims == Get(vol.dimensions)
    IN IF item.ValueType = "SCOORD3D" /\ item.GraphicData # None
       THEN LET coords == Get(item.GraphicData)
                type == IF item.GraphicType = "POLYLINE" /\ Len(coords) >= 6
                        THEN "arrow" ELSE "marker"
                endVoxel == patientToVoxel(SubSeq(coords, 4, 6), vol)
            IN Once(patientToVoxel(SubSeq(coords, 1, 3), vol),
                 LAMBDA startVoxel :
                   IF ~startVoxel.ok THEN startVoxel
                   ELSE Once(
                          Append(found,
                            [type |-> type,
                             position |->
                               clampNorm(voxelToNormalized(startVoxel.value,
                                                           dims)),
                             arrowTo |->
                               IF type = "arrow"
                               THEN Some(clampNorm(
                                      voxelToNormalized(endVoxel.value, dims)))
                               ELSE None,
                             labelText |-> None]),
                          LAMBDA next : importItems(items, i + 1, next, vol)))
       ELSE IF /\ item.ValueType = "TEXT" /\ Len(found) > 0
               /\ item.TextValue # None /\ Get(item.TextValue) # ""
       THEN Once([found EXCEPT ![Len(found)].type = "label",
                               ![Len(found)].labelText = item.TextValue],
              LAMBDA next : importItems(items, i + 1, next, vol))
       ELSE importItems(items, i + 1, found, vol)

\* lines 28-77: what handleFile finds in a file, or the message it reports
parseFile(file, vol) ==
  IF vol.dimensions = None \/ vol.spacing = None \/ vol.origin = None
     \/ vol.orientation = None
  THEN ParseError("Load a DICOM series before importing SR.")
  ELSE IF ~file.readable THEN ParseError("Failed to import SR")
  ELSE LET parsed == importItems(file.items, 1, <<>>, vol)
       IN IF ~parsed.ok THEN parsed
          ELSE IF parsed.value = <<>>
          THEN ParseError("No annotations found in SR.")
          ELSE parsed

\* lines 79-87: clearAnnotations, then addAnnotation for each one found
RECURSIVE addAll(_, _)
addAll(prev, found) ==
  IF found = <<>> THEN prev
  ELSE Once(addAnnotation(prev,
              Annotation(Head(found).type, Head(found).position,
                         Head(found).arrowTo, None, Head(found).labelText,
                         None)),
         LAMBDA next : addAll(next, Tail(found)))

\* files given to the import that the application did not write: not a
\* DICOM file, a report without content, a report with a text only, a
\* report with a point at the origin of the loaded series and its text, a
\* report with texts before and after a point, items of other value types
\* and a polyline, and a report with a polyline and its text
Point3D(x, y, z) ==
  [ValueType |-> "SCOORD3D", GraphicType |-> "POINT",
   GraphicData |-> Some(<<Q(x, 1), Q(y, 1), Q(z, 1)>>), TextValue |-> None]
Text(t) ==
  [ValueType |-> "TEXT", GraphicType |-> "", GraphicData |-> None,
   TextValue |-> Some(t)]
Polyline3D(x, y, z, u, v, w) ==
  [ValueType |-> "SCOORD3D", GraphicType |-> "POLYLINE",
   GraphicData |-> Some(<<Q(x, 1), Q(y, 1), Q(z, 1), Q(u, 1), Q(v, 1), Q(w, 1)>>),
   TextValue |-> None]
CodeItem ==
  [ValueType |-> "CODE", GraphicType |-> "", GraphicData |-> None,
   TextValue |-> Some("finding")]
NoGraphicData ==
  [ValueType |-> "SCOORD3D", GraphicType |-> "POINT", GraphicData |-> None,
   TextValue |-> None]
MixedReport ==
  [readable |-> TRUE,
   items |-> <<Text("first"), Point3D(10, 20, 30), CodeItem, Text("note"),
               NoGraphicData, Text("final"),
               Polyline3D(10, 20, 30, 11, 21, 32), CodeItem>>]
SRFiles ==
  { [readable |-> FALSE, items |-> <<>>],
    [readable |-> TRUE, items |-> <<>>],
    [readable |-> TRUE, items |-> <<Text("note")>>],
    [readable |-> TRUE, items |-> <<Point3D(10, 20, 30), Text("note")>>],
    MixedReport,
    [readable |-> TRUE,
     items |-> <<Polyline3D(10, 20, 30, 11, 21, 32), Text("tip")>>] }

\* the files the import can be given: those, and the export of the
\* annotations as they are
ImportFiles ==
  SRFiles \cup
  { written.value :
      written \in {w \in {exportAnnotationsToSR(annotations, volume)} : w.ok} }

\* an import that empties the store before it reads the file
handleFileClearFirst ==
  /\ \E file \in ImportFiles : \E parsed \in {parseFile(file, volume)} :
          IF parsed.ok
          THEN /\ annotations' = addAll(<<>>, parsed.value)
               /\ selectedAnnotationId' = Some(annotations'[Len(annotations')].id)
               /\ importError' = None
          ELSE /\ importError' = Some(parsed.error)
               /\ annotations' = <<>>
               /\ selectedAnnotationId' = None
  /\ UNCHANGED <<appVars, panelVars, workerVars, histVars, seriesVars, metaVars,
                 tool, arrowDraftStart, arrowFromMarkerId, geo, surface>>

\* ImportSRPanel.tsx lines 28-95
handleFile ==
  /\ \E file \in ImportFiles : \E parsed \in {parseFile(file, volume)} :
          IF parsed.ok
          THEN /\ annotations' = addAll(<<>>, parsed.value)
               /\ selectedAnnotationId' = Some(annotations'[Len(annotations')].id)
               /\ importError' = None
          ELSE /\ importError' = Some(parsed.error)
               /\ UNCHANGED <<annotations, selectedAnnotationId>>
  /\ UNCHANGED <<appVars, panelVars, workerVars, histVars, seriesVars, metaVars,
                 tool, arrowDraftStart, arrowFromMarkerId, geo, surface>>

\* the application after handleSeries has loaded the series s; loads counts
\* the loads started from then on
Loaded(s) ==
  /\ InitPanel /\ InitWorker /\ InitHist /\ InitSeries
  /\ generatedMesh = None
  /\ parsePending = None
  /\ loads = 0
  /\ parsedSeries = Some(s)
  /\ volumeData = Some(makeVolumeData(s, fillVolume(s)))
  /\ volume = volumeMeta(s)
  /\ sliceIndex = middleSlice(s.dimensions[3])

\* the application with nothing loaded, or with a series of one slice
InitWorkspace ==
  /\ InitMarks
  /\ \/ InitApp /\ InitPanel /\ InitWorker /\ InitHist /\ InitSeries /\ InitMeta
     \/ Loaded(SeriesOf(<<StepSlice>>))

\* the annotation tools at work on the loaded series
NextWorkspace ==
  \/ setTool
  \/ clearAnnotations
  \/ deleteFromList
  \/ onKey
  \/ handleOverlayClick
  \/ onMouseDownMarker
  \/ onMouseDownArrowHandle

SpecWorkspace == InitWorkspace /\ [][NextWorkspace]_vars

\* annotations the slice viewer places on a series of two slices: a marker,
\* a label with a text, a label whose prompt was cancelled, and an arrow
Placed ==
  << Annotation("marker", <<Q(0, 1), Q(0, 1), Q(0, 1)>>, None, Some(0), None,
                None),
     Annotation("label", <<Q(1, 1), Q(1, 2), Q(1, 1)>>, None, Some(1),
                Some("lesion"), None),
     Annotation("label", <<Q(0, 1), Q(0, 1), Q(1, 1)>>, None, Some(1),
                Some(""), None),
     Annotation("arrow", <<Q(0, 1), Q(0, 1), Q(0, 1)>>,
                Some(<<Q(1, 1), Q(1, 2), Q(0, 1)>>), Some(0), None, None) >>

\* a series whose row and column directions coincide
FlatOrientation ==
  [SeriesOf(<<StepSlice, StepSlice>>)
     EXCEPT !.orientation = Some(<<1, 0, 0, 1, 0, 0>>)]

\* the lists of up to MaxAnnotations of them, with the ids addAnnotation
\* gives them
PlacedLists ==
  UNION { { [i \in 1..n |-> [Placed[pick[i]] EXCEPT !.id = i]] :
              pick \in [1..n -> 1..Len(Placed)] } : n \in 0..MaxAnnotations }

\* the application with a series of two slices loaded and annotations
\* placed, when the slice is changed and a further series is loaded
InitReload ==
  /\ Loaded(SeriesOf(<<StepSlice, StepSlice>>))
  /\ tool = "select"
  /\ arrowDraftStart = None
  /\ arrowFromMarkerId = None
  /\ importError = None
  /\ geo = None
  /\ surface = None
  /\ annotations \in PlacedLists
  /\ selectedAnnotationId = None

SpecReload == InitReload /\ [][ParseStart \/ ParseFinish \/ setSliceIndex]_vars

\* the application when a file is given to the import: nothing loaded, or a
\* series loaded and up to MaxAnnotations annotations placed, the last one
\* selected or the selection cleared
InitImport ==
  /\ tool = "select"
  /\ arrowDraftStart = None
  /\ arrowFromMarkerId = None
  /\ importError = None
  /\ geo = None
  /\ surface = None
  /\ \/ /\ InitApp /\ InitPanel /\ InitWorker /\ InitHist /\ InitSeries
        /\ InitMeta
        /\ annotations = <<>>
        /\ selectedAnnotationId = None
     \/ /\ \E s \in {SeriesOf(<<StepSlice, StepSlice>>),
                      [SeriesOf(<<StepSlice, StepSlice>>)
                         EXCEPT !.orientation = None],
                      FlatOrientation} : Loaded(s)
        /\ annotations \in PlacedLists
        /\ selectedAnnotationId \in
             {None} \cup {Some(Len(annotations)) : k \in 1..Len(annotations)}

SpecImport == InitImport /\ [][handleFile]_vars

----------------------------------------------------------------------------
(***************************************************************************)
(* One coordinate conversion: a grid point taken to patient space by the   *)
(* geometry module and by the worker, and taken back.                      *)
(***************************************************************************)
MaxStep == 2

\* VolumeMeta records as handleSeries stores them: dimensions 4 x 8 x 16,
\* spacing (0.5, 0.75, 2), origin (10, 20, 30)
Meta(orientation) ==
  [dimensions |-> Some(<<4, 8, 16>>),
   spacing |-> Some(<<Q(1, 2), Q(3, 4), Q(2, 1)>>),
   orientation |-> orientation,
   origin |-> Some(<<Q(10, 1), Q(20, 1), Q(30, 1)>>)]

\* the orientations: of an axial and of a sagittal series, of a series whose
\* row and column directions are (3,4,0)/5 and (-4,3,0)/5, of one whose two
\* directions coincide, of a series without ImageOrientationPatient, and of
\* one whose row direction (2^-27, 1, 0) all but coincides with its column
\* direction (0, 1, 0), with spacing (1, 1, 2)
GeoVolumes ==
  { Meta(orientationToMatrix(Some(<<1, 0, 0, 0, 1, 0>>))),
    Meta(orientationToMatrix(Some(<<0, 1, 0, 0, 0, 1>>))),
    Meta(Some(<<Q(3, 5), Q(4, 5), Q(0, 1), Q(0 - 4, 5), Q(3, 5), Q(0, 1),
                Q(0, 1), Q(0, 1), Q(1, 1)>>)),
    Meta(orientationToMatrix(Some(<<1, 0, 0, 1, 0, 0>>))),
    Meta(orientationToMatrix(None)),
    [Meta(Some(<<Q(1, 134217728), Q(1, 1), Q(0, 1), Q(0, 1), Q(1, 1), Q(0, 1),
                 Q(0, 1), Q(0, 1), Q(1, 1)>>))
       EXCEPT !.spacing = Some(<<Q(1, 1), Q(1, 1), Q(2, 1)>>)] }

\* grid points of such a volume
Voxels ==
  { <<Q(i, 1), Q(2 * j, 1), Q(4 * k, 1)>> :
      i \in 0..MaxStep, j \in 0..MaxStep, k \in 0..MaxStep }

\* MeshGeneratorPanel lines 120-129 and worker lines 274-286: the position
\* the worker gives g, from the message the panel posts for the volume;
\* exportSr.ts lines 193-231: the patient position of g and the way back
convert ==
  /\ geo = None
  /\ \E g \in Voxels :
       LET patient == voxelToPatient(g, volume)
       IN geo' =
            [voxel |-> g,
             patient |-> patient,
             back |-> IF patient.ok THEN patientToVoxel(patient.value, volume)
                      ELSE patient,
             world |-> gridToWorld(g,
                         IF volume.spacing # None THEN Get(volume.spacing)
                         ELSE <<Q(1, 1), Q(1, 1), Q(1, 1)>>,
                         IF volume.origin # None THEN Get(volume.origin)
                         ELSE <<Q(0, 1), Q(0, 1), Q(0, 1)>>,
                         volume.orientation)]
  /\ UNCHANGED <<appVars, panelVars, workerVars, histVars, seriesVars, metaVars,
                 annotations, selectedAnnotationId, tool, arrowDraftStart,
                 arrowFromMarkerId, importError, surface>>

InitGeometry ==
  /\ InitApp /\ InitPanel /\ InitWorker /\ InitHist /\ InitSeries /\ InitMarks
  /\ sliceIndex = 0
  /\ volume \in GeoVolumes

SpecGeometry == InitGeometry /\ [][convert]_vars

----------------------------------------------------------------------------
(***************************************************************************)
(* The end of self.onmessage (lines 503-554) on a mesh with coordinates.   *)
(* The extractor above keeps of a vertex what the dedupe map sees; here a  *)
(* vertex is its position, three rationals, and the sums of the smoothing  *)
(* are exact.  An index array holds three indices (from 0) per triangle.   *)
(***************************************************************************)

\* a + b over the least common denominator
QSum(a, b) ==
  LET g == gcd(a[2], b[2])
  IN Q(a[1] * (b[2] \div g) + b[1] * (a[2] \div g), (a[2] \div g) * b[2])
QNeg(a) == <<0 - a[1], a[2]>>
QLe(a, b) == ~QLt(b, a)

\* lines 75-77: the default arguments, which the one call of line 532 uses
iterations == 2
lambda == Q(2, 5)
mu == Q(0 - 17, 50)

\* lines 93-96: the triangle the index at place n (from 1) belongs to
triangleOf(indices, n) ==
  LET i == 3 * ((n - 1) \div 3)
  IN <<indices[i + 1], indices[i + 2], indices[i + 3]>>
\* line 98
skipsTriangle(t, vertexCount) ==
  t[1] >= vertexCount \/ t[2] >= vertexCount \/ t[3] >= vertexCount
\* lines 106-119: the corner at place c of a triangle receives the two others
otherCorners == << <<2, 3>>, <<1, 3>>, <<1, 2>> >>

\* lines 109, 114, 119: counts[v] after the triangle loop
countOf(positions, indices, v) ==
  2 * Cardinality({n \in 1..Len(indices) :
                     /\ indices[n] = v
                     /\ ~skipsTriangle(triangleOf(indices, n), Len(positions))})

\* lines 106-118: accum[3v + axis - 1] after the triangle loop, as the sum of
\* the additions the places n.. of the index array make to it
RECURSIVE accumFrom(_, _, _, _, _)
accumFrom(positions, indices, v, axis, n) ==
  IF n > Len(indices) THEN Q(0, 1)
  ELSE LET t == triangleOf(indices, n)
           o == otherCorners[((n - 1) % 3) + 1]
       IN IF indices[n] # v \/ skipsTriangle(t, Len(positions))
          THEN accumFrom(positions, indices, v, axis, n + 1)
          ELSE Once(accumFrom(positions, indices, v, axis, n + 1),
                    LAMBDA rest :
                      QSum(QSum(positions[t[o[1]] + 1][axis],
                                positions[t[o[2]] + 1][axis]), rest))

\* a pass that averages a vertex without neighbours with the origin
applyWeightToAll(positions, indices, weight) ==
  IF weight[1] = 0 THEN positions
  ELSE [i \in 1..Len(positions) |->
         LET count == countOf(positions, indices, i - 1) IN
         [axis \in 1..3 |->
            LET avg == IF count = 0 THEN Q(0, 1)
                       ELSE QMul(accumFrom(positions, indices, i - 1, axis, 1),
                                 Q(1, count))
            IN QSum(positions[i][axis],
                    QMul(weight, QSum(avg, QNeg(positions[i][axis]))))]]

\* lines 87-135: one pass, the positions after it
applyWeight(positions, indices, weight) ==
  IF weight[1] = 0 THEN positions
  ELSE [i \in 1..Len(positions) |->
         LET count == countOf(positions, indices, i - 1) IN
         IF count = 0 THEN positions[i]
         ELSE [axis \in 1..3 |->
                 LET avg == QMul(accumFrom(positions, indices, i - 1, axis, 1),
                                 Q(1, count))
                 IN QSum(positions[i][axis],
                         QMul(weight, QSum(avg, QNeg(positions[i][axis]))))]]

\* lines 137-140
RECURSIVE smoothFrom(_, _, _)
smoothFrom(positions, indices, iter) ==
  IF iter >= iterations THEN positions
  ELSE Once(applyWeight(positions, indices, lambda), LAMBDA shrunk :
         Once(applyWeight(shrunk, indices, mu), LAMBDA inflated :
           smoothFrom(inflated, indices, iter + 1)))

\* lines 72-141: the positions after the call
smoothMeshTaubin(positions, indices) ==
  IF Len(positions) = 0 \/ Len(indices) = 0 THEN positions
  ELSE smoothFrom(positions, indices, 0)

\* lines 305-310 and 360-365: globalMin / globalMax after every vertex of
\* `positions` has been emitted; <<>> while they are the infinities
accumulateBox(positions) ==
  IF positions = <<>> THEN None
  ELSE LET along(axis) == {positions[i][axis] : i \in 1..Len(positions)}
       IN Some([min |-> [axis \in 1..3 |->
                           CHOOSE x \in along(axis) :
                             \A y \in along(axis) : QLe(x, y)],
                max |-> [axis \in 1..3 |->
                           CHOOSE x \in along(axis) :
                             \A y \in along(axis) : QLe(y, x)]])
\* lines 535-538 and 548-551
publishedBox(box) ==
  IF box = None
  THEN [min |-> <<Q(0, 1), Q(0, 1), Q(0, 1)>>, max |-> <<Q(0, 1), Q(0, 1), Q(0, 1)>>]
  ELSE Get(box)

\* the same box taken over the positions as they are published
publishedBoxOfResult(positions) == publishedBox(accumulateBox(positions))

\* the meshes: vertex lists with a flat part and a vertex above it, and index
\* arrays of up to MaxFaces triangles, some with an index that is no vertex
MaxFaces == 2
Pt(x, y, z) == <<Q(x, 1), Q(y, 1), Q(z, 1)>>
VertexLists ==
  { <<>>,
    <<Pt(0, 0, 0), Pt(2, 0, 0), Pt(0, 2, 0)>>,
    <<Pt(0, 0, 0), Pt(2, 0, 0), Pt(0, 2, 0), Pt(2, 2, 4)>>,
    <<Pt(0, 0, 0), Pt(2, 0, 0), Pt(0, 2, 0), Pt(2, 2, 4), Pt(1, 1, 1)>>,
    <<Pt(0 - 1, 0, 3), Pt(2, 0 - 2, 0), Pt(0, 2, 1), Pt(5, 5, 5)>> }
Faces ==
  { <<0, 1, 2>>, <<1, 2, 3>>, <<0, 1, 5>>, <<0, 0, 1>>, <<2, 1, 0>>, <<4, 3, 2>> }
IndexLists ==
  UNION { { [n \in 1..(3 * k) |-> f[((n - 1) \div 3) + 1][((n - 1) % 3) + 1]] :
              f \in [1..k -> Faces] } : k \in 0..MaxFaces }

\* the arrays of lines 513-530 filled, with the box of the vertices emitted
InitSurface ==
  /\ InitApp /\ InitPanel /\ InitWorker /\ InitHist /\ InitSeries /\ InitMeta
  /\ annotations = <<>>
  /\ selectedAnnotationId = None
  /\ tool = "select"
  /\ arrowDraftStart = None
  /\ arrowFromMarkerId = None
  /\ importError = None
  /\ geo = None
  /\ \E positions \in VertexLists, indices \in IndexLists :
       surface = Some([positions |-> positions, indices |-> indices,
                       box |-> accumulateBox(positions), before |-> None])

\* line 532
WorkerSmooth ==
  /\ surface # None
  /\ Get(surface).before = None
  /\ \E smoothed \in {smoothMeshTaubin(Get(surface).positions, Get(surface).indices)} :
       surface' = Some([Get(surface) EXCEPT
                          !.before = Some([positions |-> Get(surface).positions,
                                           indices |-> Get(surface).indices]),
                          !.positions = smoothed])
  /\ UNCHANGED <<appVars, panelVars, workerVars, histVars, seriesVars, metaVars,
                 annotations, selectedAnnotationId, tool, arrowDraftStart,
                 arrowFromMarkerId, importError, geo>>

\* the mesh message of lines 542-554
SurfaceMessage(mesh) ==
  [type |-> "mesh", positions |-> mesh.positions, indices |-> mesh.indices,
   bbox |-> publishedBox(mesh.box)]

\* lines 535-554, for the arrays the chunk loop hands over: at least one
\* triangle, and every index the index of a vertex
WorkerPublishSurface ==
  /\ surface # None
  /\ Get(surface).before # None
  /\ posted = <<>>
  /\ Get(surface).indices # <<>>
  /\ \A n \in 1..Len(Get(surface).indices) :
       Get(surface).indices[n] < Len(Get(surface).positions)
  /\ outbox' = outbox \o <<ProgressMessage(1, 1), SurfaceMessage(Get(surface))>>
  /\ posted' = posted \o <<ProgressMessage(1, 1), SurfaceMessage(Get(surface))>>
  /\ events' = events \o <<[kind |-> "post", type |-> "progress"],
                           [kind |-> "post", type |-> "mesh"]>>
  /\ UNCHANGED <<appVars, panelVars, inbox, wpc, req, chunkIdx, processedChunks,
                 chunkResults, requests, seriesVars, annotVars>>

SpecSmooth == InitSurface /\ [][WorkerSmooth \/ WorkerPublishSurface]_vars

----------------------------------------------------------------------------
(* The series assembler: parseDicomFiles of lib/dicom/parseDicom.ts         *)
(* A file is the part of its data set the assembler reads: Rows, Columns,   *)
(* BitsAllocated and PixelRepresentation (absent: <<>>), the z of           *)
(* ImagePositionPatient, InstanceNumber, ImageOrientationPatient (a tag     *)
(* for its six numbers), PixelSpacing (row, column) and whether its         *)
(* transfer syntax is supported.  Every position has x = y = 0.             *)

\* ImageOrientationPatient values of the inputs: row and column direction
axial == <<1, 0, 0, 0, 1, 0>>
sagittal == <<0, 1, 0, 0, 0, 1>>

File(name, rows, cols, bits, z, inst) ==
  [fileName |-> name, rows |-> rows, cols |-> cols, bitsAllocated |-> bits,
   pixelRepresentation |-> Some(0), imagePosition |-> z, instanceNumber |-> inst,
   imageOrientation |-> Some(axial), pixelSpacing |-> None,
   supported |-> TRUE]

Files ==
  { [File("p1", Some(2), Some(2), Some(16), Some(1), Some(3))
       EXCEPT !.pixelSpacing = Some(<<2, 3>>)],
    [File("s0", Some(2), Some(2), Some(16), Some(0), Some(0))
       EXCEPT !.pixelSpacing = Some(<<0 - 1, 0>>)],
    [File("o0", Some(2), Some(2), Some(16), Some(7), Some(8))
       EXCEPT !.imageOrientation = None],
    File("p5", Some(2), Some(2), Some(16), Some(5), Some(1)),
    File("q5", Some(2), Some(2), Some(16), Some(5), Some(2)),
    File("n2", Some(2), Some(2), Some(16), None, Some(2)),
    File("n0", Some(2), Some(2), Some(16), None, None),
    File("m0", Some(2), Some(2), Some(16), None, None),
    File("r3", Some(3), Some(2), Some(16), Some(2), Some(4)),
    [File("b8", Some(2), Some(2), None, Some(3), Some(5))
       EXCEPT !.pixelRepresentation = Some(1), !.imageOrientation = Some(sagittal)],
    File("x0", None, Some(2), Some(16), Some(4), Some(6)),
    [File("u1", Some(2), Some(2), Some(16), Some(6), Some(7))
       EXCEPT !.supported = FALSE] }
FileLists == UNION {[1..n -> Files] : n \in 0..MaxFiles}

\* lines 122-130
bySlicePosition(a, b) ==
  LET az == a.imagePosition
      bz == b.imagePosition
      ai == IF IsSome(a.instanceNumber) THEN Get(a.instanceNumber) ELSE 0
      bi == IF IsSome(b.instanceNumber) THEN Get(b.instanceNumber) ELSE 0
  IN IF IsSome(az) /\ IsSome(bz) /\ Get(az) # Get(bz) THEN Get(az) - Get(bz)
     ELSE ai - bi

(* line 368, slices.sort(bySlicePosition): the sort of V8 for an array      *)
(* shorter than 64 elements, which finds the run the array starts with      *)
(* (reversing it when strictly descending) and inserts the remaining       *)
(* elements one by one at the place a binary search finds.                  *)
Reverse(a) == [i \in 1..Len(a) |-> a[Len(a) + 1 - i]]
RECURSIVE runEnd(_, _, _)
runEnd(a, descending, idx) ==
  IF idx > Len(a) THEN Len(a)
  ELSE LET order == bySlicePosition(a[idx], a[idx - 1]) IN
       IF (descending /\ order >= 0) \/ (~descending /\ order < 0)
       THEN idx - 1
       ELSE runEnd(a, descending, idx + 1)
\* the place of pivot among a[left+1 .. right], both counted from 0
RECURSIVE searchPlace(_, _, _, _)
searchPlace(a, pivot, left, right) ==
  IF left >= right THEN left
  ELSE LET mid == left + ((right - left) \div 2) IN
       IF bySlicePosition(pivot, a[mid + 1]) < 0
       THEN searchPlace(a, pivot, left, mid)
       ELSE searchPlace(a, pivot, mid + 1, right)
\* a[1..start] is in order; the elements after it are inserted in turn
RECURSIVE binaryInsertionSort(_, _)
binaryInsertionSort(a, start) ==
  IF start >= Len(a) THEN a
  ELSE LET pivot == a[start + 1]
           left == searchPlace(a, pivot, 0, start)
       IN binaryInsertionSort(
            SubSeq(a, 1, left) \o <<pivot>> \o SubSeq(a, left + 1, start)
              \o SubSeq(a, start + 2, Len(a)),
            start + 1)
sort(a) ==
  IF Len(a) < 2 THEN a
  ELSE LET descending == bySlicePosition(a[2], a[1]) < 0
           runLength == runEnd(a, descending, 3)
           run == SubSeq(a, 1, runLength)
       IN binaryInsertionSort(
            (IF descending THEN Reverse(run) ELSE run)
              \o SubSeq(a, runLength + 1, Len(a)),
            runLength)


\* lines 343-361: the slice pushed for a file
ParsedSlice(f) ==
  [fileName |-> f.fileName, rows |-> Get(f.rows), cols |-> Get(f.cols),
   bitsAllocated |-> IF IsSome(f.bitsAllocated) THEN Get(f.bitsAllocated) ELSE 8,
   pixelRepresentation |-> f.pixelRepresentation,
   imagePosition |-> f.imagePosition,
   imageOrientation |-> f.imageOrientation,
   pixelSpacing |-> f.pixelSpacing,
   instanceNumber |-> f.instanceNumber]

\* the z component of the unit normal of an orientation: row x col of lines
\* 384-391 (the orientations of the inputs are unit axis vectors, whose
\* normal has length 1)
normalZ(ori) == ori[1] * ori[5] - ori[2] * ori[4]

\* lines 374-400: the distance of the first two slices, projected on the
\* slice normal when the projection is not zero; 1 when it vanishes or a
\* position is missing
spacingZOf(sorted) ==
  IF Len(sorted) > 1 /\ IsSome(sorted[1].imagePosition)
     /\ IsSome(sorted[2].imagePosition)
  THEN LET diff == Get(sorted[2].imagePosition) - Get(sorted[1].imagePosition)
           hypot == IF diff < 0 THEN 0 - diff ELSE diff
           ori == sorted[1].imageOrientation
           projection == IF IsSome(ori) THEN hypot * normalZ(Get(ori)) ELSE 0
           dz == IF projection > 0 THEN projection ELSE hypot
       IN IF dz > 0 THEN dz ELSE 1
  ELSE 1

\* lines 370-402
spacingOf(sorted) ==
  LET ps == sorted[1].pixelSpacing IN
  << IF IsSome(ps) THEN Get(ps)[2] ELSE 1,
     IF IsSome(ps) THEN Get(ps)[1] ELSE 1,
     spacingZOf(sorted) >>

\* lines 288-361: one iteration of the loop over the files
readFile ==
  /\ series = None
  /\ Len(slices) < Len(files)
  /\ LET f == files[Len(slices) + 1]
         bitsAllocated == IF IsSome(f.bitsAllocated) THEN Get(f.bitsAllocated) ELSE 8
     IN IF ~IsSome(f.rows) \/ ~IsSome(f.cols)
           \/ Get(f.rows) = 0 \/ Get(f.cols) = 0 \/ bitsAllocated = 0
        THEN /\ series' = Some(ParseError("Missing Rows/Cols/BitsAllocated"))
             /\ UNCHANGED slices
        ELSE IF ~f.supported
        THEN /\ series' = Some(ParseError("Unsupported Transfer Syntax UID"))
             /\ UNCHANGED slices
        ELSE /\ slices' = Append(slices, ParsedSlice(f))
             /\ UNCHANGED series
  /\ UNCHANGED <<files, appVars, panelVars, workerVars, histVars, annotVars>>

\* lines 277-279 and 363-422: after the loop, the sort and the result
assemble ==
  /\ series = None
  /\ Len(slices) = Len(files)
  /\ IF Len(files) = 0
     THEN /\ series' = Some(ParseError("No DICOM files provided"))
          /\ UNCHANGED slices
     ELSE /\ slices' = sort(slices)
          /\ series' = Some([ok |-> TRUE,
                             slices |-> slices',
                             spacing |-> spacingOf(slices'),
                             dimensions |-> <<slices'[1].cols, slices'[1].rows,
                                              Len(slices')>>,
                             orientation |-> slices'[1].imageOrientation])
  /\ UNCHANGED <<files, appVars, panelVars, workerVars, histVars, annotVars>>

InitAssembler ==
  /\ InitApp /\ InitPanel /\ InitWorker /\ InitHist /\ InitMeta /\ InitMarks
  /\ files \in FileLists
  /\ slices = <<>>
  /\ series = None

SpecSeries == InitAssembler /\ [][readFile \/ assemble]_vars

----------------------------------------------------------------------------
(* Properties of one extraction request *)

IsProgress(m) == m.type = "progress"
IsMesh(m) == m.type = "mesh"
ProgressPosted == SelectSeq(posted, IsProgress)
MeshPosted == \E i \in 1..Len(posted) : IsMesh(posted[i])
EmptyPosted == \E i \in 1..Len(posted) : posted[i] = EmptyMessage
ErrorPosted(kind) == \E i \in 1..Len(posted) : posted[i] = ErrorMessage(kind)
\* the worker has taken the request the history is about
Taken == req # NoRequest /\ inbox = <<>>
\* the handler of a request that passed the early returns has returned
Returned == Taken /\ precheck(req) = "ok" /\ wpc = "idle"

\* C1: the progress values posted for a request never decrease, each lies in
\* [0,1], the last one is 1 once the mesh is posted, and the k-th value
\* posted by the chunk loop is k / totalChunks.
C1_ProgressMonotone ==
  LET P == ProgressPosted IN
  /\ \A i \in 1..Len(P) : P[i].den > 0 /\ 0 <= P[i].num /\ P[i].num <= P[i].den
  /\ \A i \in 1..(Len(P) - 1) : P[i].num * P[i + 1].den <= P[i + 1].num * P[i].den
  /\ MeshPosted => Len(P) > 0 /\ P[Len(P)].num = P[Len(P)].den
  /\ \A k \in 1..processedChunks :
       k <= Len(P) /\ P[k].num * totalChunks(req) = k * P[k].den
\* a mesh posted after three chunks: 1/3, 2/3, 1 and the final 1
C1_Witness ==
  /\ MeshPosted
  /\ processedChunks = 3
  /\ Len(ProgressPosted) = 4
  /\ ProgressPosted[1].num * 3 = ProgressPosted[1].den

\* C5: a request with a dimension below 2 (or without voxels) is answered by
\* the dimension error alone, and a request with valid dimensions whose
\* iso-value is not finite is answered by the non-finite error alone; no
\* chunk is processed in either case.
C5_EarlyErrors ==
  Taken =>
    /\ (Width(req) < 2 \/ Height(req) < 2 \/ Depth(req) < 2)
         => posted = <<ErrorMessage("dimensions")>> /\ processedChunks = 0
    /\ (~req.isoValue.finite /\ IsSome(req.voxels)
          /\ Width(req) >= 2 /\ Height(req) >= 2 /\ Depth(req) >= 2)
         => posted = <<ErrorMessage("nonfinite")>> /\ processedChunks = 0
\* C5 as stated: every request with a non-finite iso-value gets the non-finite error
C5_AsStated ==
  Taken =>
    /\ (Width(req) < 2 \/ Height(req) < 2 \/ Depth(req) < 2)
         => posted = <<ErrorMessage("dimensions")>>
    /\ ~req.isoValue.finite => posted = <<ErrorMessage("nonfinite")>>
C5_Witness ==
  /\ Taken
  /\ ~req.isoValue.finite
  /\ req.dims = <<126, 2, 2>>
  /\ posted = <<ErrorMessage("nonfinite")>>
  /\ wpc = "idle"

\* C6: every index of a posted mesh is in [0, V), V the number of its
\* vertices, and every index of a chunk's output is below the chunk's own
\* number of vertices.
C6_IndicesInRange ==
  /\ \A i \in 1..Len(posted) :
       IsMesh(posted[i]) =>
         \A j \in 1..Len(posted[i].indices) :
           0 <= posted[i].indices[j] /\ posted[i].indices[j] < Len(posted[i].positions)
  /\ \A i \in 1..Len(chunkResults) :
       \A j \in 1..Len(chunkResults[i].indices) :
         0 <= chunkResults[i].indices[j]
         /\ chunkResults[i].indices[j] < Len(chunkResults[i].positions)
\* a mesh of two chunks, with an index rebased past the first chunk's vertices
C6_Witness ==
  /\ Len(chunkResults) = 2
  /\ \E i \in 1..Len(posted) :
       /\ IsMesh(posted[i])
       /\ Len(posted[i].positions) =
            Len(chunkResults[1].positions) + Len(chunkResults[2].positions)
       /\ \E j \in 1..Len(posted[i].indices) :
            posted[i].indices[j] >= Len(chunkResults[1].positions)

\* a chunk threw the budget error, so it held MAX_CHUNK_VERTEX_COUNT vertices
BudgetExceeded == ErrorPosted("budget")
\* some chunk of the request emitted a vertex
SomeVertexEmitted == chunkResults # <<>> \/ BudgetExceeded

C8_ChunkBudget ==
  /\ \A i \in 1..Len(chunkResults) :
       Len(chunkResults[i].positions) <= MAX_CHUNK_VERTEX_COUNT
  /\ \A i \in 1..Len(posted) :
       IsMesh(posted[i]) => Len(posted[i].positions) <= MAX_CHUNK_VERTEX_COUNT * Len(chunkResults)
  /\ BudgetExceeded =>
       /\ posted[Len(posted)] = ErrorMessage("budget")
       /\ ~MeshPosted /\ ~EmptyPosted
       /\ wpc = "idle"
\* the budget is exceeded in a later chunk, after progress was reported
C8_Witness ==
  /\ BudgetExceeded
  /\ Len(ProgressPosted) >= 1
  /\ chunkResults # <<>>
  /\ ~MeshPosted

----------------------------------------------------------------------------
(* Properties of a request issued by the panel *)

IsPost(e, type) == e.kind = "post" /\ e.type = type
IsDeliver(e, type) == e.kind = "deliver" /\ e.type = type

\* C2: in the log of a request no progress message is posted after the mesh
\* is posted nor delivered after the mesh is delivered, and the mesh is
\* neither posted nor delivered after the worker's teardown: a teardown
\* never lies between the last progress message and the mesh.
C2_MeshAfterProgressBeforeTeardown ==
  \A i, j \in 1..Len(events) :
    i < j =>
      /\ ~(IsPost(events[i], "mesh") /\ IsPost(events[j], "progress"))
      /\ ~(IsDeliver(events[i], "mesh") /\ IsDeliver(events[j], "progress"))
      /\ ~(events[i] = Teardown /\ events[j].type = "mesh")
\* progress delivered, then the mesh delivered and installed, then the teardown
C2_Witness ==
  /\ generatedMesh # None
  /\ \E i, j, k \in 1..Len(events) :
       /\ i < j /\ j < k
       /\ IsDeliver(events[i], "progress")
       /\ IsDeliver(events[j], "mesh")
       /\ events[k] = Teardown

\* the worker was terminated while it handled a request: after the early
\* returns and before the empty marker, the mesh or an error was posted
TornDownRunning ==
  /\ wpc = "terminated"
  /\ Taken /\ precheck(req) = "ok"
  /\ ~MeshPosted /\ ~EmptyPosted /\ ~BudgetExceeded

fieldMin(m) == SetMin(SeqRange(Get(m.voxels)))
fieldMax(m) == SetMax(SeqRange(Get(m.voxels)))

\* C4: a request with valid dimensions and a finite iso-value below the
\* minimum or above the maximum of its own voxels is answered by the range
\* error and by nothing else.
C4_IsoOutsideObservedRange ==
  (/\ Taken
   /\ IsSome(req.voxels)
   /\ Width(req) >= 2 /\ Height(req) >= 2 /\ Depth(req) >= 2
   /\ req.isoValue.finite
   /\ (IntGt(fieldMin(req), req.isoValue) \/ IntLt(fieldMax(req), req.isoValue)))
  => posted = <<ErrorMessage("range")>>

----------------------------------------------------------------------------
(* Properties of the series assembler *)

\* the slices the loop pushed, in the order of the files
Pushed(i) ==
  [fileName |-> files[i].fileName, rows |-> Get(files[i].rows),
   cols |-> Get(files[i].cols),
   bitsAllocated |-> IF IsSome(files[i].bitsAllocated)
                     THEN Get(files[i].bitsAllocated) ELSE 8,
   pixelRepresentation |-> files[i].pixelRepresentation,
   imagePosition |-> files[i].imagePosition,
   imageOrientation |-> files[i].imageOrientation,
   pixelSpacing |-> files[i].pixelSpacing,
   instanceNumber |-> files[i].instanceNumber]
\* a slice with neither a position nor an instance number
Unplaced(sl) == sl.imagePosition = None /\ sl.instanceNumber = None
Count(a, x) == Cardinality({i \in 1..Len(a) : a[i] = x})
SameGeometry(a, b) ==
  /\ a.rows = b.rows /\ a.cols = b.cols
  /\ a.bitsAllocated = b.bitsAllocated
  /\ a.pixelRepresentation = b.pixelRepresentation
  /\ (IsSome(a.imageOrientation) /\ IsSome(b.imageOrientation))
       => a.imageOrientation = b.imageOrientation
Readable(f) ==
  /\ IsSome(f.rows) /\ IsSome(f.cols) /\ Get(f.rows) # 0 /\ Get(f.cols) # 0
  /\ f.bitsAllocated # Some(0)
  /\ f.supported

\* C9: a Series has as many slices as its depth says and its slices agree
\* in rows, columns, bits, signedness and orientation; files that are all
\* readable but disagree in one of these yield InconsistentSeries.
C9_ConsistentSeries ==
  series # None =>
    LET r == Get(series) IN
    /\ r.ok =>
         /\ r.dimensions[3] = Len(r.slices)
         /\ \A i, j \in 1..Len(r.slices) : SameGeometry(r.slices[i], r.slices[j])
    /\ ((\A i \in 1..Len(files) : Readable(files[i]))
         /\ \E i, j \in 1..Len(files) : ~SameGeometry(Pushed(i), Pushed(j)))
        => ~r.ok /\ r.error = "InconsistentSeries"

\* C10: the slices of a Series are a permutation of the input; two slices
\* that both carry a position are in ascending z, or in ascending instance
\* number when their z agree; slices without position and instance number
\* keep the order of the input.
C10_SortedByPosition ==
  (series # None /\ Get(series).ok) =>
    LET out == Get(series).slices IN
    /\ Len(out) = Len(files)
    /\ \A i \in 1..Len(files) :
         Count(out, Pushed(i)) = Cardinality({j \in 1..Len(files) : Pushed(j) = Pushed(i)})
    /\ \A i, j \in 1..Len(out) :
         (i < j /\ IsSome(out[i].imagePosition) /\ IsSome(out[j].imagePosition)) =>
           \/ Get(out[i].imagePosition) < Get(out[j].imagePosition)
           \/ /\ Get(out[i].imagePosition) = Get(out[j].imagePosition)
              /\ bySlicePosition(out[i], out[j]) <= 0
    /\ SelectSeq(out, Unplaced) =
         SelectSeq([i \in 1..Len(files) |-> Pushed(i)], Unplaced)

\* C11: the three spacing components of a Series are strictly positive.
C11_SpacingPositive ==
  (series # None /\ Get(series).ok) =>
    \A k \in 1..3 : Get(series).spacing[k] > 0

\* a file lacks one of Rows, Columns, BitsAllocated
LacksRequiredTag(f) ==
  f.rows = None \/ f.cols = None \/ f.bitsAllocated = None

\* C12: when a file of the batch lacks Rows, Columns or BitsAllocated the
\* call ends without a Series, and with the missing-tag error when every
\* file before that one was read.
C12_MissingRequiredTag ==
  \A i \in 1..Len(files) :
    (LacksRequiredTag(files[i]) /\ series # None) =>
      /\ ~Get(series).ok
      /\ (\A j \in 1..(i - 1) : Readable(files[j]))
           => Get(series).error = "Missing Rows/Cols/BitsAllocated"

\* C13: the scalar field of a Volume has w*h*d entries, each between the
\* recorded minimum and maximum.
C13_FieldWithinRecordedRange ==
  volumeData # None =>
    LET v == Get(volumeData) IN
    /\ Len(v.voxels) = v.width * v.height * v.depth
    /\ \A i \in 1..Len(v.voxels) :
         v.voxelMin <= v.voxels[i] /\ v.voxels[i] <= v.voxelMax

\* C18: when no slice of the input carries ImageOrientationPatient, the
\* Series has the identity orientation (row 1,0,0 and column 0,1,0).
C18_IdentityOrientation ==
  (series # None /\ Get(series).ok
     /\ \A i \in 1..Len(files) : files[i].imageOrientation = None)
  => Get(series).orientation = Some(axial)

\* C16: every arrow has an endpoint and every label a text that is not
\* empty.
C16_ArrowsAndLabelsComplete ==
  \A i \in 1..Len(annotations) :
    /\ annotations[i].type = "arrow" => annotations[i].arrowTo # None
    /\ annotations[i].type = "label" =>
         /\ annotations[i].labelText # None
         /\ Get(annotations[i].labelText) # ""

\* C17: the slice index of an annotation, when it has one, is a slice of
\* the volume loaded.
C17_SliceIndexWithinDepth ==
  \A i \in 1..Len(annotations) :
    annotations[i].sliceIndex # None =>
      /\ volumeData # None
      /\ 0 <= Get(annotations[i].sliceIndex)
      /\ Get(annotations[i].sliceIndex) < Get(volumeData).depth

\* C15: an import that reports an error leaves the annotations and the
\* selection as they were; an import that changes the annotations reports
\* no error and stores the complete set it found.
C15_FailedImportChangesNothing ==
  [][ /\ importError' # None =>
           /\ annotations' = annotations
           /\ selectedAnnotationId' = selectedAnnotationId
      /\ annotations' # annotations =>
           /\ importError' = None
           /\ \E file \in ImportFiles :
                /\ parseFile(file, volume).ok
                /\ Len(annotations') = Len(parseFile(file, volume).value)
                /\ \A i \in 1..Len(annotations') :
                     /\ annotations'[i].type = parseFile(file, volume).value[i].type
                     /\ annotations'[i].position
                          = parseFile(file, volume).value[i].position ]_vars

\* an import has failed on a matrix that cannot be inverted while
\* annotations were stored
C15_Witness ==
  /\ importError = Some("Orientation matrix not invertible.")
  /\ annotations # <<>>

\* the distance of two coordinates is at most 1/10000
Near(a, b) ==
  LET d == QSub(a, b)
  IN ~QLt(Q(1, 10000), IF d[1] < 0 THEN Q(0 - d[1], d[2]) ELSE d)

\* C14: the annotations exported and imported again under the same volume
\* are as many, in the same order, each with its position within 1/10000,
\* its type and its label text.
C14_RoundTrip ==
  LET written == exportAnnotationsToSR(annotations, volume)
      parsed == parseFile(written.value, volume)
  IN (written.ok /\ parsed.ok) =>
       /\ Len(parsed.value) = Len(annotations)
       /\ \A i \in 1..Len(annotations) :
            /\ parsed.value[i].type = annotations[i].type
            /\ parsed.value[i].labelText = annotations[i].labelText
            /\ \A k \in 1..3 :
                 Near(parsed.value[i].position[k], annotations[i].position[k])

\* the determinant of the orientation matrix of a volume
Det(vol) ==
  LET m == orientationMatrix(vol).value
      P(i, j, k) == QMul(m[1][i], QMul(m[2][j], m[3][k]))
  IN QSub(QAdd(QAdd(P(1, 2, 3), P(2, 3, 1)), P(3, 1, 2)),
          QAdd(QAdd(P(3, 2, 1), P(2, 1, 3)), P(1, 3, 2)))

\* the volume of the worked example: identity orientation
ExampleVolume == Meta(orientationToMatrix(Some(<<1, 0, 0, 0, 1, 0>>)))

\* an orientation matrix the library inverts: the magnitude of its
\* determinant is at least 10^-8
Invertible(vol) ==
  /\ orientationMatrix(vol).ok
  /\ LET det == Det(vol)
     IN ~QLt(IF det[1] < 0 THEN Q(0 - det[1], det[2]) ELSE det,
             Q(1, 100000000))

C20_WorkerAgreesWithGeometry ==
  geo # None =>
    /\ geo.patient.ok
    /\ geo.world = geo.patient.value

\* C21: a mesh installed in the application state was extracted from the
\* scalar field of the volume loaded at that moment.
C21_MeshOfLoadedVolume ==
  [][ (generatedMesh' # None /\ generatedMesh' # generatedMesh) =>
        /\ volumeData # None
        /\ req.voxels = Some(Get(volumeData).voxels) ]_vars

\* error, empty or mesh: the messages that end a request
IsTerminal(m) == m.type \in {"error", "empty", "mesh"}

\* C22: of the messages the worker has posted for a request, at most one is
\* an error, an empty marker or a mesh, and it is the last one; the worker
\* is back at rest once it is posted.
C22_OneTerminalMessage ==
  /\ \A i \in 1..Len(posted) : IsTerminal(posted[i]) => i = Len(posted)
  /\ (posted # <<>> /\ IsTerminal(posted[Len(posted)])) => wpc = "idle"
  /\ (Taken /\ wpc = "idle") =>
       posted # <<>> /\ IsTerminal(posted[Len(posted)])

\* the vertex budget error of a later chunk, after progress was posted
C22_Witness ==
  /\ Len(posted) >= 2
  /\ posted[Len(posted)] = ErrorMessage("budget")
  /\ IsProgress(posted[1])
  /\ wpc = "idle"

\* the items the import reads as geometry, and the TEXT items with a text
Geometric(item) == item.ValueType = "SCOORD3D" /\ item.GraphicData # None
Texted(item) ==
  item.ValueType = "TEXT" /\ item.TextValue # None /\ Get(item.TextValue) # ""
\* the positions of the geometric items, and the TEXT items that follow the
\* geometric item at g before the next geometric item
GeometricAt(items) == {i \in 1..Len(items) : Geometric(items[i])}
TextsOf(items, g) ==
  {j \in (g + 1)..Len(items) :
     Texted(items[j]) /\ \A h \in (g + 1)..j : ~Geometric(items[h])}
\* the k-th geometric item
NthGeometric(items, k) ==
  CHOOSE g \in GeometricAt(items) :
    Cardinality({h \in GeometricAt(items) : h <= g}) = k

\* C23: an import that succeeds stores one annotation for each geometric
\* item, in order; an annotation followed by TEXT items before the next
\* geometric item is a label with the text of the last of them, any other
\* annotation a marker or an arrow without text; TEXT items before the
\* first geometric item and items of other value types add and change
\* nothing.
C23_TextFollowsGeometry ==
  [][ (importError' = None /\ annotations' # annotations) =>
        \E file \in ImportFiles :
          /\ file.readable
          /\ Len(annotations') = Cardinality(GeometricAt(file.items))
          /\ \A k \in 1..Len(annotations') :
               LET g == NthGeometric(file.items, k)
                   texts == TextsOf(file.items, g)
               IN IF texts = {}
                  THEN /\ annotations'[k].labelText = None
                       /\ annotations'[k].type =
                            IF /\ file.items[g].GraphicType = "POLYLINE"
                               /\ Len(Get(file.items[g].GraphicData)) >= 6
                            THEN "arrow" ELSE "marker"
                  ELSE /\ annotations'[k].type = "label"
                       /\ annotations'[k].labelText
                            = file.items[SetMax(texts)].TextValue ]_vars

\* the report with texts around a point and a polyline has been imported:
\* a label with the last text, then an arrow
C23_Witness ==
  /\ importError = None
  /\ Len(annotations) = 2
  /\ annotations[1].type = "label"
  /\ annotations[1].labelText = Some("final")
  /\ annotations[2].type = "arrow"
  /\ annotations[2].labelText = None

\* C24: when no load is under way, the parsed series in the application
\* state is the series the stored volume was built from: a load that failed
\* has left the parsed series, the volume metadata and the volume data as
\* they were.
C24_LoadAllOrNothing ==
  (parsePending = None /\ parsedSeries # None) =>
    /\ ~fillVolume(Get(parsedSeries)).thrown
    /\ volumeData = Some(makeVolumeData(Get(parsedSeries),
                                        fillVolume(Get(parsedSeries))))
    /\ volume = volumeMeta(Get(parsedSeries))

\* the cells of the volume of a request, and the voxels of the chunk at c
Cells(m) == (0..(Width(m) - 2)) \X (0..(Height(m) - 2)) \X (0..(Depth(m) - 2))
InChunkVoxels(m, c, cell) ==
  /\ c[1] <= cell[1] /\ cell[1] + 1 < c[1] + CHUNK_SIZE
  /\ c[2] <= cell[2] /\ cell[2] + 1 < c[2] + CHUNK_SIZE
  /\ c[3] <= cell[3] /\ cell[3] + 1 < c[3] + CHUNK_SIZE
\* the chunks the loop has visited and not skipped for their size
Visited(m) ==
  {chunkAt(m, i) : i \in {j \in 0..(chunkIdx - 1) : ~chunkTooSmall(m, chunkAt(m, j))}}

\* C25: for dimensions of at least 2, the loop visits as many chunks as the
\* progress denominator counts; once it has ended, every cell of the volume
\* has been processed by a chunk, and a cell whose corners lie in the voxels
\* of two chunks by both.
C25_ChunkGridCovers ==
  (wpc = "running" /\ Width(req) >= 2 /\ Height(req) >= 2 /\ Depth(req) >= 2) =>
    /\ chunkCount(req) = totalChunks(req)
    /\ processedChunks = chunkIdx
    /\ chunkIdx = chunkCount(req) =>
         /\ \A cell \in Cells(req) :
              \E c \in Visited(req) : cell \in chunkCells(req, c)
         /\ \A c \in Visited(req) : \A cell \in Cells(req) :
              InChunkVoxels(req, c, cell) => cell \in chunkCells(req, c)

\* the six chunks of a volume of 127 x 65 x 2 have been visited
C25_Witness ==
  /\ wpc = "running"
  /\ req.dims = <<127, 65, 2>>
  /\ chunkIdx = 6
  /\ chunkIdx = chunkCount(req)

\* the worker the current request was posted to has been terminated
TornDown == Teardown \in SeqRange(events)
\* the last message the panel's handler received was a terminal one
TerminalDelivered ==
  /\ events # <<>>
  /\ events[Len(events)].kind = "deliver"
  /\ events[Len(events)].type \in {"error", "empty", "mesh"}

\* C26: once 'Generate' has set the loading flag, unless the worker is torn
\* down a terminal message is eventually delivered and the flag is false
\* again; while the flag is true no further request is sent.
C26_GenerationFinishes ==
  /\ [][loading => requests' = requests]_vars
  /\ loading ~> (~loading /\ (TerminalDelivered \/ TornDown))

\* a second request, sent after the first one ended with an error, has been
\* answered with a mesh
C26_Witness ==
  /\ requests = 2
  /\ mounted /\ ~loading
  /\ ~TornDown
  /\ TerminalDelivered
  /\ events[Len(events)].type = "mesh"

\* C27: every annotation whose linkedToId is set refers to a marker that is
\* in the annotation list.
C27_LinksReferToMarkers ==
  \A i \in 1..Len(annotations) :
    annotations[i].linkedToId # None =>
      \E j \in 1..Len(annotations) :
        /\ Some(annotations[j].id) = annotations[i].linkedToId
        /\ annotations[j].type = "marker"

\* C28: the auto-iso of the volume data lies in [voxelMin, voxelMax], and the
\* request that carries it as iso-value passes the worker's range check.
C28_AutoIsoWithinRange ==
  volumeData # None =>
    LET vd == Get(volumeData) IN
    /\ vd.autoIso.finite
    /\ IntLe(vd.voxelMin, vd.autoIso)
    /\ ~IntLt(vd.voxelMax, vd.autoIso)
    /\ ~isoOutsideRange(GenerateMessage(vd, Get(initialIso(volumeData))))
    /\ (req.voxels = Some(vd.voxels) /\ req.isoValue = vd.autoIso) =>
         precheck(req) \notin {"nonfinite", "range"}

\* the worker has taken a request with an auto-iso strictly between the bins
\* of a volume whose range is -3..2
C28_Witness ==
  /\ volumeData # None
  /\ Get(volumeData).voxelMin = 0 - 3
  /\ Get(volumeData).autoIso.d # 1
  /\ Taken
  /\ req.isoValue = Get(volumeData).autoIso
  /\ precheck(req) = "ok"

\* the vertices that occur in a triangle whose three indices are vertices
Neighboured(mesh) ==
  {mesh.indices[n] : n \in {m \in 1..Len(mesh.indices) :
     ~skipsTriangle(triangleOf(mesh.indices, m), Len(mesh.positions))}}
\* the index array without the triangles that hold an index that is no vertex
RECURSIVE keptFrom(_, _, _)
keptFrom(indices, vertexCount, n) ==
  IF n > Len(indices) THEN <<>>
  ELSE (IF skipsTriangle(triangleOf(indices, n), vertexCount) THEN <<>>
        ELSE <<indices[n]>>) \o keptFrom(indices, vertexCount, n + 1)

\* C29: smoothing leaves the vertex count and the index array as they were,
\* moves no vertex outside the triangles whose three indices are all below
\* the vertex count, and gives the positions it gives without the triangles
\* that hold an index at or above the vertex count.
C29_SmoothingFrame ==
  (surface # None /\ Get(surface).before # None) =>
    LET after == Get(surface)
        before == Get(after.before)
        V == Len(before.positions)
    IN /\ Len(after.positions) = V
       /\ after.indices = before.indices
       /\ \A v \in 0..(V - 1) :
            v \notin Neighboured(before) =>
              after.positions[v + 1] = before.positions[v + 1]
       /\ after.positions =
            smoothMeshTaubin(before.positions, keptFrom(before.indices, V, 1))

\* five vertices smoothed with the triangles 0,1,2 and 0,1,5: vertex 0 has
\* moved, vertex 4, in no triangle, is where it was
C29_Witness ==
  /\ surface # None
  /\ Get(surface).before # None
  /\ Len(Get(surface).positions) = 5
  /\ Get(surface).indices = <<0, 1, 2, 0, 1, 5>>
  /\ Get(surface).positions[5] = Pt(1, 1, 1)
  /\ Get(surface).positions[1] # Pt(0, 0, 0)

\* C30: the bounding box of a posted mesh has min <= max on every axis and
\* holds every position of the posted positions array.
C30_BoxEnclosesMesh ==
  \A i \in 1..Len(posted) :
    (surface # None /\ posted[i].type = "mesh") =>
      \A axis \in 1..3 :
        /\ QLe(posted[i].bbox.min[axis], posted[i].bbox.max[axis])
        /\ \A v \in 1..Len(posted[i].positions) :
             /\ QLe(posted[i].bbox.min[axis], posted[i].positions[v][axis])
             /\ QLe(posted[i].positions[v][axis], posted[i].bbox.max[axis])

====
